---- MODULE Spec2Model ----
(***************************************************************************)
(* Model of the Safe + Timelock calldata codec (src/src/lib/timelock.ts)   *)
(* and of the ABI encoder/decoder (viem 2.x) it calls.                     *)
(*                                                                         *)
(* Representation                                                          *)
(*   Hex text   the characters after "0x", a sequence of character codes:  *)
(*              0..15  = '0'..'9','a'..'f'   (the lower-case hex digits)   *)
(*              26..31 = 'A'..'F'            (upper-case, code = 16+value) *)
(*              32     = a character that is not a hex digit               *)
(*   bytes      a sequence of 0..255, positions counted from 0             *)
(*   bigint     its base-16 digits without leading zeros (<<>> is 0n)      *)
(*   digest     keccak256 is collision-free and not computed: the digest   *)
(*              of a byte string is <<-1>> \o that byte string             *)
(*   outcome    [ok |-> TRUE, v |-> value] for a return,                   *)
(*              [ok |-> FALSE] for a thrown exception                      *)
(***************************************************************************)
EXTENDS Integers, Sequences, FiniteSets, TLC

VARIABLES
    pc,         \* the last operation performed
    req,        \* the arguments of the last encode / hash call
    enc,        \* outcome of the last encode call: {calldata, operationId}
    calldata,   \* the calldata text handed to decodeTimelockCalldata
    tamper,     \* how calldata was edited after it was encoded
    dec,        \* outcome of the last decodeTimelockCalldata call
    prevReq,    \* the arguments of the encode call before the last one
    prevEnc,    \* the outcome of the encode call before the last one
    prevHash,   \* the previous hash call: its arguments and outcome
    curHash,    \* the latest hash call: its arguments and outcome
    abis,       \* the user's ABIs in localStorage
    userAbiResult,  \* useDecodeCalldata: the memoised user ABI result
    fourByte,   \* useDecodeCalldata: the state of the 4byte.directory query
    bytesArray, \* decodeMultiSend: the bytes of the packed stream
    offset,     \* decodeMultiSend: the position of the while loop
    transactions,   \* decodeMultiSend: the entries pushed so far
    isIframeMode,    \* useUrlState: isIframeMode.current
    currentStateRef, \* useUrlState: currentStateRef.current
    debounceRef,     \* useUrlState: debounceRef.current, and whether its timer waits
    elapsed,         \* milliseconds since the waiting timer was set
    url,             \* the parameters of window.location.search
    storage,         \* the item safe-timelock-app-state of localStorage
    passed,          \* per key, the value most recently passed to updateUrl
    cleared,         \* clearTabState since the mount: "no", or what it found
    setSince,        \* the keys passed to updateUrl since the last clearTabState
    writes,          \* URL writes of the timer since the last updateUrl
    calls            \* updateUrl calls since the timer last did not wait

hookVars == <<abis, userAbiResult, fourByte>>
loopVars == <<bytesArray, offset, transactions>>
urlVars ==
    <<isIframeMode, currentStateRef, debounceRef, elapsed, url, storage,
      passed, cleared, setSince, writes, calls>>

vars ==
    <<pc, req, enc, calldata, tamper, dec, prevReq, prevEnc, prevHash, curHash,
      hookVars, loopVars, urlVars>>

(***************************************************************************)
(* Widths                                                                  *)
(***************************************************************************)
WordBytes == 32
AddressBytes == 20
SelectorBytes == 4
WordChars == 2 * WordBytes

\* Number(bigint) of a word whose value is at least this is modelled as this
\* value: it lies beyond every buffer of the model, like the real number.
HugeNumber == 16777216

Throw == [ok |-> FALSE]
Return(x) == [ok |-> TRUE, v |-> x]

(***************************************************************************)
(* Characters, hex text and bytes                                          *)
(***************************************************************************)
IsHexChar(c) == c \in (0..15) \cup (26..31)
HexVal(c) == c % 16
IsLetter(c) == c \in (10..15) \cup (26..31)

\* String.prototype.toLowerCase on one character
ToLowerChar(c) == IF c \in 26..31 THEN c - 16 ELSE c
ToUpperChar(c) == IF c \in 10..15 THEN c + 16 ELSE c
ToLowerCase(s) == [i \in 1..Len(s) |-> ToLowerChar(s[i])]

Zeros(n) == [i \in 1..n |-> 0]
Repeat(s, n) == [i \in 1..(n * Len(s)) |-> s[((i - 1) % Len(s)) + 1]]
CeilDiv(a, b) == (a + b - 1) \div b

\* viem size(hex): Math.ceil((value.length - 2) / 2)
size(hex) == CeilDiv(Len(hex), 2)

\* viem hexToBytes: an odd-length text gets a leading '0'; a character that is
\* not a hex digit throws.
viem_hexToBytes(hex) ==
    LET h == IF Len(hex) % 2 = 1 THEN <<0>> \o hex ELSE hex
    IN  IF \E i \in 1..Len(h) : ~IsHexChar(h[i])
        THEN Throw
        ELSE Return([i \in 1..(Len(h) \div 2) |->
                        16 * HexVal(h[2 * i - 1]) + HexVal(h[2 * i])])

\* viem bytesToHex: two lower-case digits per byte
viem_bytesToHex(bytes) ==
    CHOOSE hex \in {[i \in 1..(2 * Len(b)) |->
                        IF i % 2 = 1 THEN b[(i + 1) \div 2] \div 16
                                     ELSE b[i \div 2] % 16] : b \in {bytes}} : TRUE

\* viem padHex(hex, {dir, size}): throws when the text is longer than size
padLeft(hex, nbytes) == Zeros(2 * nbytes - Len(hex)) \o hex
padRight(hex, nbytes) == hex \o Zeros(2 * nbytes - Len(hex))

(***************************************************************************)
(* Integers                                                                *)
(***************************************************************************)
RECURSIVE NatToDigits(_)
NatToDigits(n) == IF n = 0 THEN <<>> ELSE Append(NatToDigits(n \div 16), n % 16)

\* the digits from the first that is not zero on
StripZeros(s) ==
    CHOOSE r \in {IF \A i \in 1..Len(v) : v[i] = 0 THEN <<>>
                  ELSE SubSeq(v, CHOOSE i \in 1..Len(v) :
                                    v[i] # 0 /\ \A j \in 1..(i - 1) : v[j] = 0,
                              Len(v)) : v \in {s}} : TRUE

\* viem bytesToBigInt of a 32-byte word: the bigint, as its base-16 digits
viem_bytesToBigInt(bytes) == StripZeros(viem_bytesToHex(bytes))

RECURSIVE DigitsToNat(_, _)
DigitsToNat(d, k) == IF k = 0 THEN 0 ELSE 16 * DigitsToNat(d, k - 1) + d[k]

\* viem bytesToNumber of a 32-byte word (Number(bigint)); see HugeNumber
digitsToNumber(d) == IF Len(d) > 6 THEN HugeNumber ELSE DigitsToNat(d, Len(d))
viem_bytesToNumber(bytes) == digitsToNumber(StripZeros(viem_bytesToHex(bytes)))

\* viem numberToHex(n, {size: 32}) for a JS number n >= 0
numberToWord(n) == padLeft(NatToDigits(n), WordBytes)

\* bigint.toString(): the decimal digits, by long division of the base-16
\* digits by ten.
RECURSIVE DivTen(_, _, _)
DivTen(digits, rem, acc) ==
    IF digits = <<>> THEN [q |-> StripZeros(acc), r |-> rem]
    ELSE LET cur == 16 * rem + Head(digits)
         IN  DivTen(Tail(digits), cur % 10, Append(acc, cur \div 10))

RECURSIVE DecimalDigits(_)
DecimalDigits(big) ==
    IF big = <<>> THEN <<>>
    ELSE LET d == DivTen(big, 0, <<>>)
         IN  Append(DecimalDigits(d.q), d.r)

toString(big) == IF big = <<>> THEN <<0>> ELSE DecimalDigits(big)

(***************************************************************************)
(* Addresses (viem isAddress, checksumAddress)                             *)
(***************************************************************************)
\* 0x1234567890123456789012345678901234567890 (TEST_TARGET of the tests)
AddrDigits == Repeat(<<1, 2, 3, 4, 5, 6, 7, 8, 9, 0>>, 4)
\* 0xabcdefabcdefabcdefabcdefabcdefabcdefabcd (TEST_TARGET_2 of the tests)
AddrLower == Repeat(<<10, 11, 12, 13, 14, 15>>, 6) \o <<10, 11, 12, 13>>

\* The positions (from 1) of a lower-case address text at which
\* keccak256(text) has a nibble >= 8.  keccak256 is not computed: the rows are
\* the real digests' for the addresses the model uses,
\*   0xABcdEFABcdEFabcdEfAbCdefabcdeFABcDEFabCD
\*   0x1234567890123456789012345678901234567890
\* and every other address gets a fixed pattern that stands for its digest.
keccakHighNibbles(lower) ==
    IF lower = AddrLower
    THEN {1, 2, 5, 6, 7, 8, 11, 12, 17, 19, 21, 30, 31, 32, 34, 35, 36, 39, 40}
    ELSE IF lower = AddrDigits
    THEN {1, 2, 3, 6, 7, 8, 9, 11, 12, 13, 15, 20, 21, 24, 27, 28, 30, 32,
          36, 37, 38, 39, 40}
    ELSE {i \in 1..Len(lower) : i % 3 = 1}

\* viem checksumAddress: EIP-55, a letter is upper-case where the digest of the
\* lower-case text has a nibble >= 8
checksumAddress(address) ==
    LET lower == ToLowerCase(address)
        high == keccakHighNibbles(lower)
    IN  [i \in 1..Len(lower) |->
            IF i \in high THEN ToUpperChar(lower[i]) ELSE lower[i]]

\* viem isAddress (strict): 40 hex digits, all lower-case or checksummed
isAddress(address) ==
    /\ Len(address) = 2 * AddressBytes
    /\ \A i \in 1..Len(address) : IsHexChar(address[i])
    /\ \/ ToLowerCase(address) = address
       \/ checksumAddress(address) = address

\* 0xABcdEFABcdEFabcdEfAbCdefabcdeFABcDEFabCD
AddrChecksummed == checksumAddress(AddrLower)

(***************************************************************************)
(* ABI encoding (viem encodeAbiParameters)                                 *)
(* A prepared parameter is [ok, dynamic, encoded].                         *)
(***************************************************************************)
Prepared(dyn, e) == [ok |-> TRUE, dynamic |-> dyn, encoded |-> e]
NotPrepared == [ok |-> FALSE, dynamic |-> FALSE, encoded |-> <<>>]

RECURSIVE Concat(_)
Concat(ss) == IF ss = <<>> THEN <<>> ELSE Head(ss) \o Concat(Tail(ss))

RECURSIVE Sum(_)
Sum(ns) == IF ns = <<>> THEN 0 ELSE Head(ns) + Sum(Tail(ns))

IsArrayType(type) == type \in {"address[]", "uint256[]", "bytes[]"}
ElemType(type) ==
    CASE type = "address[]" -> "address"
      [] type = "uint256[]" -> "uint256"
      [] type = "bytes[]" -> "bytes"

encodeAddress(value) ==
    IF ~isAddress(value) THEN NotPrepared
    ELSE Prepared(FALSE, padLeft(ToLowerCase(value), WordBytes))

\* uint256: numberToHex(value, {size: 32}) throws above 2^256 - 1
encodeNumber(value) ==
    IF Len(value) > WordChars THEN NotPrepared
    ELSE Prepared(FALSE, padLeft(value, WordBytes))

\* bytes: the length word, then the text right-padded to whole words
encodeBytesDynamic(value) ==
    LET bytesSize == size(value)
        value_ == IF bytesSize % WordBytes # 0
                  THEN padRight(value, CeilDiv(Len(value), WordChars) * WordBytes)
                  ELSE value
    IN  Prepared(TRUE, numberToWord(bytesSize) \o value_)

\* bytes32: the size must be 32
encodeBytes32(value) ==
    IF size(value) # WordBytes THEN NotPrepared
    ELSE Prepared(FALSE, padRight(value, WordBytes))

prepareScalar(type, value) ==
    CASE type = "address" -> encodeAddress(value)
      [] type = "uint256" -> encodeNumber(value)
      [] type = "bytes" -> encodeBytesDynamic(value)
      [] type = "bytes32" -> encodeBytes32(value)

\* viem encodeParams: the static words and the offsets of the dynamic ones
\* (the head), then the dynamic encodings (the tail)
encodeParams(ps) ==
    LET n == Len(ps)
        staticSize == Sum([i \in 1..n |->
                            IF ps[i].dynamic THEN WordBytes
                            ELSE size(ps[i].encoded)])
        dynBefore(i) == Sum([j \in 1..(i - 1) |->
                            IF ps[j].dynamic THEN size(ps[j].encoded) ELSE 0])
        heads == [i \in 1..n |->
                    IF ps[i].dynamic THEN numberToWord(staticSize + dynBefore(i))
                    ELSE ps[i].encoded]
        tails == [i \in 1..n |->
                    IF ps[i].dynamic THEN ps[i].encoded ELSE <<>>]
    IN  Concat(heads) \o Concat(tails)

\* viem encodeArray for a dynamic array T[]: the length word, then the
\* elements encoded as a tuple
arrayOf(kids) ==
    IF \E i \in 1..Len(kids) : ~kids[i].ok THEN NotPrepared
    ELSE IF Len(kids) > 0
         THEN Prepared(TRUE, numberToWord(Len(kids)) \o encodeParams(kids))
         ELSE Prepared(TRUE, numberToWord(0))

encodeArray(type, value) ==
    arrayOf([i \in 1..Len(value) |-> prepareScalar(ElemType(type), value[i])])

prepareParam(type, value) ==
    IF IsArrayType(type) THEN encodeArray(type, value)
    ELSE prepareScalar(type, value)

encodePrepared(ps) ==
    IF \E i \in 1..Len(ps) : ~ps[i].ok THEN Throw
    ELSE Return(encodeParams(ps))

encodeAbiParameters(types, values) ==
    encodePrepared([i \in 1..Len(types) |-> prepareParam(types[i], values[i])])

\* viem keccak256 of a hex text: the digest of its bytes
digestOf(b) == IF b.ok THEN Return(<<-1>> \o b.v) ELSE Throw
keccak256(hex) == digestOf(viem_hexToBytes(hex))

IsDigest(x) == Len(x) > 0 /\ x[1] = -1

(***************************************************************************)
(* ABI decoding (viem decodeAbiParameters: a cursor over the bytes; every  *)
(* setPosition and readBytes asserts its last position is inside them)     *)
(***************************************************************************)
\* cursor.assertPosition(pos), as run by setPosition(pos)
CanSet(b, pos) == pos >= 0 /\ pos <= Len(b) - 1
\* cursor.readBytes(n) at pos: assertPosition(pos + n - 1)
CanRead(b, pos, n) == CanSet(b, pos + n - 1)
Slice(b, pos, n) == SubSeq(b, pos + 1, pos + n)

\* the last 20 bytes of the word, checksummed
decodeAddress(b, pos) ==
    IF ~CanRead(b, pos, WordBytes) THEN Throw
    ELSE Return(checksumAddress(viem_bytesToHex(
            Slice(b, pos + WordBytes - AddressBytes, AddressBytes))))

\* uint256: more than 48 bits, so bytesToBigInt
decodeNumber(b, pos) ==
    IF ~CanRead(b, pos, WordBytes) THEN Throw
    ELSE Return(viem_bytesToBigInt(Slice(b, pos, WordBytes)))

decodeBytes32(b, pos) ==
    IF ~CanRead(b, pos, WordBytes) THEN Throw
    ELSE Return(viem_bytesToHex(Slice(b, pos, WordBytes)))

\* bytes: the offset word at pos, the length word at staticPosition + offset,
\* then that many bytes; the cursor then goes back to staticPosition + 32
bytesOfLength(b, at, length, staticPosition) ==
    IF length = 0
    THEN IF CanSet(b, staticPosition + WordBytes) THEN Return(<<>>) ELSE Throw
    ELSE IF ~CanRead(b, at + WordBytes, length) THEN Throw
    ELSE IF ~CanSet(b, staticPosition + WordBytes) THEN Throw
    ELSE Return(viem_bytesToHex(Slice(b, at + WordBytes, length)))

bytesAt(b, at, staticPosition) ==
    IF ~CanSet(b, at) \/ ~CanRead(b, at, WordBytes) THEN Throw
    ELSE bytesOfLength(b, at, viem_bytesToNumber(Slice(b, at, WordBytes)),
                       staticPosition)

decodeBytesDynamic(b, pos, staticPosition) ==
    IF ~CanRead(b, pos, WordBytes) THEN Throw
    ELSE bytesAt(b, staticPosition + viem_bytesToNumber(Slice(b, pos, WordBytes)),
                 staticPosition)

decodeScalar(type, b, pos, staticPosition) ==
    CASE type = "address" -> decodeAddress(b, pos)
      [] type = "uint256" -> decodeNumber(b, pos)
      [] type = "bytes32" -> decodeBytes32(b, pos)
      [] type = "bytes" -> decodeBytesDynamic(b, pos, staticPosition)

\* the loop of decodeArray: element i is decoded at startOfData + 32 * i
\* (a static child consumes 32 bytes, a dynamic child has a 32-byte offset)
RECURSIVE decodeElems(_, _, _, _, _, _)
elemDecoded(type, b, startOfData, i, length, acc, r) ==
    IF ~r.ok THEN Throw
    ELSE decodeElems(type, b, startOfData, i + 1, length, Append(acc, r.v))

decodeElems(type, b, startOfData, i, length, acc) ==
    IF i >= length THEN Return(acc)
    ELSE IF ~CanSet(b, startOfData + WordBytes * i) THEN Throw
    ELSE elemDecoded(type, b, startOfData, i, length, acc,
            decodeScalar(type, b, startOfData + WordBytes * i, startOfData))

\* T[]: the offset word at pos, the length word at staticPosition + offset,
\* then the elements; the cursor then goes back to staticPosition + 32
arrayDecoded(b, staticPosition, r) ==
    IF ~r.ok \/ ~CanSet(b, staticPosition + WordBytes) THEN Throw ELSE r

arrayAt(type, b, start, staticPosition) ==
    IF ~CanSet(b, start) \/ ~CanRead(b, start, WordBytes) THEN Throw
    ELSE arrayDecoded(b, staticPosition,
            decodeElems(ElemType(type), b, start + WordBytes, 0,
                        viem_bytesToNumber(Slice(b, start, WordBytes)), <<>>))

decodeArray(type, b, pos, staticPosition) ==
    IF ~CanRead(b, pos, WordBytes) THEN Throw
    ELSE arrayAt(type, b,
                 staticPosition + viem_bytesToNumber(Slice(b, pos, WordBytes)),
                 staticPosition)

decodeParameter(type, b, pos, staticPosition) ==
    IF IsArrayType(type) THEN decodeArray(type, b, pos, staticPosition)
    ELSE decodeScalar(type, b, pos, staticPosition)

\* viem decodeAbiParameters(params, data): parameter i is decoded at 32 * i
allDecoded(rs) ==
    IF \E i \in 1..Len(rs) : ~rs[i].ok THEN Throw
    ELSE Return([i \in 1..Len(rs) |-> rs[i].v])

decodeParameters(types, data, bytes) ==
    IF ~bytes.ok THEN Throw
    ELSE IF Len(bytes.v) = 0 /\ Len(types) > 0 THEN Throw
    ELSE IF size(data) > 0 /\ size(data) < WordBytes THEN Throw
    ELSE allDecoded([i \in 1..Len(types) |->
            IF ~CanSet(bytes.v, WordBytes * (i - 1)) THEN Throw
            ELSE decodeParameter(types[i], bytes.v, WordBytes * (i - 1), 0)])

decodeAbiParameters(types, data) ==
    decodeParameters(types, data, viem_hexToBytes(data))

(***************************************************************************)
(* src/src/lib/timelock.ts                                                 *)
(***************************************************************************)
\* The function entries of TIMELOCK_ABI, in order, each with its selector
\* (viem toFunctionSelector: the first 4 bytes of the digest of its signature)
TIMELOCK_ABI == <<
    [name |-> "schedule", selector |-> <<0, 1, 13, 5, 0, 6, 2, 10>>,
     inputs |-> <<"address", "uint256", "bytes", "bytes32", "bytes32", "uint256">>],
    [name |-> "scheduleBatch", selector |-> <<8, 15, 2, 10, 0, 11, 11, 0>>,
     inputs |-> <<"address[]", "uint256[]", "bytes[]", "bytes32", "bytes32", "uint256">>],
    [name |-> "execute", selector |-> <<1, 3, 4, 0, 0, 8, 13, 3>>,
     inputs |-> <<"address", "uint256", "bytes", "bytes32", "bytes32">>],
    [name |-> "executeBatch", selector |-> <<14, 3, 8, 3, 3, 5, 14, 5>>,
     inputs |-> <<"address[]", "uint256[]", "bytes[]", "bytes32", "bytes32">>],
    [name |-> "cancel", selector |-> <<12, 4, 13, 2, 5, 2, 15, 5>>,
     inputs |-> <<"bytes32">>],
    [name |-> "getMinDelay", selector |-> <<15, 2, 7, 10, 0, 12, 9, 2>>,
     inputs |-> <<>>],
    [name |-> "isOperation", selector |-> <<3, 1, 13, 5, 0, 7, 5, 0>>,
     inputs |-> <<"bytes32">>],
    [name |-> "isOperationPending", selector |-> <<5, 8, 4, 11, 1, 5, 3, 14>>,
     inputs |-> <<"bytes32">>],
    [name |-> "isOperationReady", selector |-> <<1, 3, 11, 12, 9, 15, 2, 0>>,
     inputs |-> <<"bytes32">>],
    [name |-> "isOperationDone", selector |-> <<2, 10, 11, 0, 15, 5, 2, 9>>,
     inputs |-> <<"bytes32">>],
    [name |-> "getTimestamp", selector |-> <<13, 4, 5, 12, 4, 4, 3, 5>>,
     inputs |-> <<"bytes32">>] >>

AbiItem(functionName) ==
    TIMELOCK_ABI[CHOOSE i \in 1..Len(TIMELOCK_ABI) :
                    TIMELOCK_ABI[i].name = functionName]

\* viem encodeFunctionData({abi: TIMELOCK_ABI, functionName, args}):
\* the selector, then the encoded arguments
withSelector(selector, data) ==
    IF ~data.ok THEN Throw ELSE Return(selector \o data.v)

encodeItem(item, args) ==
    IF Len(item.inputs) > 0
    THEN withSelector(item.selector, encodeAbiParameters(item.inputs, args))
    ELSE Return(item.selector)

encodeFunctionData(functionName, args) ==
    encodeItem(AbiItem(functionName), args)

\* viem decodeFunctionData({abi: TIMELOCK_ABI, data}): the first entry whose
\* selector is the text of the first 4 bytes (compared as text), then its
\* arguments decoded from the rest
selectorOf(data) ==
    SubSeq(data, 1, IF Len(data) < 2 * SelectorBytes
                    THEN Len(data) ELSE 2 * SelectorBytes)

itemsWith(selector) ==
    {i \in 1..Len(TIMELOCK_ABI) : TIMELOCK_ABI[i].selector = selector}

First(S) == CHOOSE i \in S : \A j \in S : i <= j

namedArgs(name, args) ==
    IF ~args.ok THEN Throw
    ELSE Return([functionName |-> name, args |-> args.v])

decodeItem(item, data) ==
    IF Len(item.inputs) = 0
    THEN Return([functionName |-> item.name, args |-> <<>>])
    ELSE IF SelectorBytes > size(data) - 1 THEN Throw
    ELSE namedArgs(item.name,
            decodeAbiParameters(item.inputs,
                SubSeq(data, 2 * SelectorBytes + 1, Len(data))))

decodeFound(found, data) ==
    IF found = {} THEN Throw
    ELSE decodeItem(TIMELOCK_ABI[First(found)], data)

decodeFunctionData(data) == decodeFound(itemsWith(selectorOf(data)), data)

\* variants of the hash functions: the salt is left out, the selector of
\* execute comes first, an empty batch is refused
hashOperation_NoSalt(target, value, data, predecessor, salt) ==
    keccak256(encodeAbiParameters(
        <<"address", "uint256", "bytes", "bytes32">>,
        <<target, value, data, predecessor>>).v)

hashOperation_WithSelector(target, value, data, predecessor, salt) ==
    keccak256(encodeFunctionData("execute",
        <<target, value, data, predecessor, salt>>).v)

hashOperationBatch_NonEmpty(targets, values, payloads, predecessor, salt) ==
    IF Len(targets) = 0 THEN Throw
    ELSE keccak256(encodeAbiParameters(
            <<"address[]", "uint256[]", "bytes[]", "bytes32", "bytes32">>,
            <<targets, values, payloads, predecessor, salt>>).v)

\* keccak256(encodeAbiParameters(...)) of the two hash functions
digestOrThrow(e) == IF ~e.ok THEN Throw ELSE keccak256(e.v)

hashOperation(target, value, data, predecessor, salt) ==
    digestOrThrow(encodeAbiParameters(
        <<"address", "uint256", "bytes", "bytes32", "bytes32">>,
        <<target, value, data, predecessor, salt>>))

\* variant of hashOperationBatch: a batch of one is hashed as its operation
hashOperationBatch_OneAsSingle(targets, values, payloads, predecessor, salt) ==
    IF Len(targets) = 1 /\ Len(values) = 1 /\ Len(payloads) = 1
    THEN hashOperation(targets[1], values[1], payloads[1], predecessor, salt)
    ELSE digestOrThrow(encodeAbiParameters(
            <<"address[]", "uint256[]", "bytes[]", "bytes32", "bytes32">>,
            <<targets, values, payloads, predecessor, salt>>))

hashOperationBatch(targets, values, payloads, predecessor, salt) ==
    digestOrThrow(encodeAbiParameters(
        <<"address[]", "uint256[]", "bytes[]", "bytes32", "bytes32">>,
        <<targets, values, payloads, predecessor, salt>>))

\* variant of encodeSchedule: the delay is hashed with the other fields
encodeSchedule_DelayHashed(target, value, data, predecessor, salt, delay) ==
    IF ~encodeFunctionData("schedule",
            <<target, value, data, predecessor, salt, delay>>).ok
    THEN Throw
    ELSE Return([calldata |-> encodeFunctionData("schedule",
                    <<target, value, data, predecessor, salt, delay>>).v,
                 operationId |-> digestOrThrow(encodeAbiParameters(
                    <<"address", "uint256", "bytes", "bytes32", "bytes32",
                      "uint256">>,
                    <<target, value, data, predecessor, salt, delay>>)).v])

\* { calldata, operationId } of the four encode functions
Encoded(calldata_, operationId) ==
    IF ~calldata_.ok \/ ~operationId.ok THEN Throw
    ELSE Return([calldata |-> calldata_.v, operationId |-> operationId.v])

encodeSchedule(target, value, data, predecessor, salt, delay) ==
    Encoded(encodeFunctionData("schedule",
                <<target, value, data, predecessor, salt, delay>>),
            hashOperation(target, value, data, predecessor, salt))

encodeScheduleBatch(targets, values, payloads, predecessor, salt, delay) ==
    Encoded(encodeFunctionData("scheduleBatch",
                <<targets, values, payloads, predecessor, salt, delay>>),
            hashOperationBatch(targets, values, payloads, predecessor, salt))

\* variant of encodeExecute: the identifier is the hash of the calldata
encodeExecute_IdOfCalldata(target, value, data, predecessor, salt) ==
    Encoded(encodeFunctionData("execute",
                <<target, value, data, predecessor, salt>>),
            digestOrThrow(encodeFunctionData("execute",
                <<target, value, data, predecessor, salt>>)))

encodeExecute(target, value, data, predecessor, salt) ==
    Encoded(encodeFunctionData("execute",
                <<target, value, data, predecessor, salt>>),
            hashOperation(target, value, data, predecessor, salt))

encodeExecuteBatch(targets, values, payloads, predecessor, salt) ==
    Encoded(encodeFunctionData("executeBatch",
                <<targets, values, payloads, predecessor, salt>>),
            hashOperationBatch(targets, values, payloads, predecessor, salt))

encodeCancel(operationId) == encodeFunctionData("cancel", <<operationId>>)

\* null, and the element an array read past its end gives (undefined)
Null == [functionName |-> "null"]
Undefined == <<-2>>

\* variant of decodedOperations: every entry reports values[0]
decodedOperations_FirstValue(targets, values, payloads) ==
    IF Len(values) < Len(targets) THEN Throw
    ELSE Return([i \in 1..Len(targets) |->
                    [target |-> targets[i],
                     value |-> toString(values[1]),
                     data |-> IF i <= Len(payloads) THEN payloads[i]
                              ELSE Undefined]])

\* targets.map((t, i) => ({target: t, value: values[i].toString(),
\* data: payloads[i]})): values[i] undefined throws, payloads[i] undefined
\* does not
decodedOperations(targets, values, payloads) ==
    IF Len(values) < Len(targets) THEN Throw
    ELSE Return([i \in 1..Len(targets) |->
                    [target |-> targets[i],
                     value |-> toString(values[i]),
                     data |-> IF i <= Len(payloads) THEN payloads[i]
                              ELSE Undefined]])

\* variants of the returned objects: the salt reported as the predecessor, a
\* delay reported for execute, the id of cancel hashed
decodedSchedule_SaltAsPredecessor(a, id) ==
    IF ~id.ok THEN Throw
    ELSE Return([functionName |-> "schedule",
                 target |-> a[1],
                 value |-> toString(a[2]),
                 data |-> a[3],
                 predecessor |-> a[5],
                 salt |-> a[5],
                 delay |-> toString(a[6]),
                 operationId |-> id.v])

decodedExecute_WithDelay(a, id) ==
    IF ~id.ok THEN Throw
    ELSE Return([functionName |-> "execute",
                 target |-> a[1],
                 value |-> toString(a[2]),
                 data |-> a[3],
                 predecessor |-> a[4],
                 salt |-> a[5],
                 delay |-> toString(<<>>),
                 operationId |-> id.v])

decodedCancel_Hashed(a) ==
    Return([functionName |-> "cancel", operationId |-> keccak256(a[1]).v])

\* the objects the cases of the switch return
decodedSchedule(a, id) ==
    IF ~id.ok THEN Throw
    ELSE Return([functionName |-> "schedule",
                 target |-> a[1],
                 value |-> toString(a[2]),
                 data |-> a[3],
                 predecessor |-> a[4],
                 salt |-> a[5],
                 delay |-> toString(a[6]),
                 operationId |-> id.v])

decodedScheduleBatch(a, ops, id) ==
    IF ~ops.ok \/ ~id.ok THEN Throw
    ELSE Return([functionName |-> "scheduleBatch",
                 operations |-> ops.v,
                 predecessor |-> a[4],
                 salt |-> a[5],
                 delay |-> toString(a[6]),
                 operationId |-> id.v])

decodedExecute(a, id) ==
    IF ~id.ok THEN Throw
    ELSE Return([functionName |-> "execute",
                 target |-> a[1],
                 value |-> toString(a[2]),
                 data |-> a[3],
                 predecessor |-> a[4],
                 salt |-> a[5],
                 operationId |-> id.v])

decodedExecuteBatch(a, ops, id) ==
    IF ~ops.ok \/ ~id.ok THEN Throw
    ELSE Return([functionName |-> "executeBatch",
                 operations |-> ops.v,
                 predecessor |-> a[4],
                 salt |-> a[5],
                 operationId |-> id.v])

decodedCancel(a) == Return([functionName |-> "cancel", operationId |-> a[1]])

\* variant of the switch: the default case returns the name it was given
decodedCall_NameOnly(name, a) ==
    CASE name = "schedule" ->
           decodedSchedule(a, hashOperation(a[1], a[2], a[3], a[4], a[5]))
      [] name = "scheduleBatch" ->
           decodedScheduleBatch(a, decodedOperations(a[1], a[2], a[3]),
               hashOperationBatch(a[1], a[2], a[3], a[4], a[5]))
      [] name = "execute" ->
           decodedExecute(a, hashOperation(a[1], a[2], a[3], a[4], a[5]))
      [] name = "executeBatch" ->
           decodedExecuteBatch(a, decodedOperations(a[1], a[2], a[3]),
               hashOperationBatch(a[1], a[2], a[3], a[4], a[5]))
      [] name = "cancel" -> decodedCancel(a)
      [] OTHER -> Return([functionName |-> name])

\* variant of the switch: the queries about an operation id are decoded too
decodedCall_IdQueries(name, a) ==
    CASE name = "schedule" ->
           decodedSchedule(a, hashOperation(a[1], a[2], a[3], a[4], a[5]))
      [] name = "scheduleBatch" ->
           decodedScheduleBatch(a, decodedOperations(a[1], a[2], a[3]),
               hashOperationBatch(a[1], a[2], a[3], a[4], a[5]))
      [] name = "execute" ->
           decodedExecute(a, hashOperation(a[1], a[2], a[3], a[4], a[5]))
      [] name = "executeBatch" ->
           decodedExecuteBatch(a, decodedOperations(a[1], a[2], a[3]),
               hashOperationBatch(a[1], a[2], a[3], a[4], a[5]))
      [] name = "cancel" -> decodedCancel(a)
      [] name = "getMinDelay" -> Return(Null)
      [] OTHER -> Return([functionName |-> name, operationId |-> a[1]])

\* switch (functionName)
decodedCall(name, a) ==
    CASE name = "schedule" ->
           decodedSchedule(a, hashOperation(a[1], a[2], a[3], a[4], a[5]))
      [] name = "scheduleBatch" ->
           decodedScheduleBatch(a, decodedOperations(a[1], a[2], a[3]),
               hashOperationBatch(a[1], a[2], a[3], a[4], a[5]))
      [] name = "execute" ->
           decodedExecute(a, hashOperation(a[1], a[2], a[3], a[4], a[5]))
      [] name = "executeBatch" ->
           decodedExecuteBatch(a, decodedOperations(a[1], a[2], a[3]),
               hashOperationBatch(a[1], a[2], a[3], a[4], a[5]))
      [] name = "cancel" -> decodedCancel(a)
      [] OTHER -> Return(Null)

\* the try block of decodeTimelockCalldata
decodedFunction(f) ==
    IF ~f.ok THEN Throw ELSE decodedCall(f.v.functionName, f.v.args)

decodeTimelockCalldataTry(calldata_) ==
    decodedFunction(decodeFunctionData(calldata_))

\* variant of decodeTimelockCalldata: nothing is caught
decodeTimelockCalldata_Uncaught(calldata_) ==
    decodedFunction(decodeFunctionData(calldata_))

\* decodeTimelockCalldata: the try block, and catch { return null }
orNull(r) == IF r.ok THEN r ELSE Return(Null)

decodeTimelockCalldata(calldata_) ==
    orNull(decodeTimelockCalldataTry(calldata_))

(***************************************************************************)
(* src/src/lib/timelock.ts: MultiSend                                      *)
(***************************************************************************)
\* 0x40a2accbd92bca938b02010e17a5b8929b49130d (MultiSend 1.3.0)
MultiSend130 ==
    <<4, 0, 10, 2, 10, 12, 12, 11, 13, 9, 2, 11, 12, 10, 9, 3, 8, 11, 0, 2,
      0, 1, 0, 14, 1, 7, 10, 5, 11, 8, 9, 2, 9, 11, 4, 9, 1, 3, 0, 13>>
\* 0xa238cbeb142c10ef7ad8442c6d1f9e89e07e7761 (MultiSend Call Only 1.3.0)
MultiSendCallOnly130 ==
    <<10, 2, 3, 8, 12, 11, 14, 11, 1, 4, 2, 12, 1, 0, 14, 15, 7, 10, 13, 8,
      4, 4, 2, 12, 6, 13, 1, 15, 9, 14, 8, 9, 14, 0, 7, 14, 7, 7, 6, 1>>
\* 0x38869bf66a61cf6bdb996a6ae40d5853fd43b526 (MultiSend 1.4.1)
MultiSend141 ==
    <<3, 8, 8, 6, 9, 11, 15, 6, 6, 10, 6, 1, 12, 15, 6, 11, 13, 11, 9, 9, 6,
      10, 6, 10, 14, 4, 0, 13, 5, 8, 5, 3, 15, 13, 4, 3, 11, 5, 2, 6>>
\* 0x9641d764fc13c8b624c04430c7356c1c7c8102e2 (MultiSend Call Only 1.4.1)
MultiSendCallOnly141 ==
    <<9, 6, 4, 1, 13, 7, 6, 4, 15, 12, 1, 3, 12, 8, 11, 6, 2, 4, 12, 0, 4,
      4, 3, 0, 12, 7, 3, 5, 6, 12, 1, 12, 7, 12, 8, 1, 0, 2, 14, 2>>

MULTISEND_ADDRESSES ==
    {ToLowerCase(a) : a \in {MultiSend130, MultiSendCallOnly130, MultiSend141,
                             MultiSendCallOnly141}}

\* '0x8d80ff0a', multiSend(bytes)
MULTISEND_SELECTOR == <<8, 13, 8, 0, 15, 15, 0, 10>>

\* parseInt(two characters, 16): the digits before the first character that
\* is not one; NaN is stored in a Uint8Array as 0
parseInt16(a, b) ==
    IF ~IsHexChar(a) THEN 0
    ELSE IF ~IsHexChar(b) THEN HexVal(a)
    ELSE 16 * HexVal(a) + HexVal(b)

\* hexToBytes of timelock.ts: new Uint8Array(str.length / 2) throws a
\* RangeError when the length is odd
hexToBytes(hex) ==
    IF Len(hex) % 2 = 1 THEN Throw
    ELSE Return([i \in 1..(Len(hex) \div 2) |->
                    parseInt16(hex[2 * i - 1], hex[2 * i])])

\* bytesToHex of timelock.ts: b.toString(16).padStart(2, '0') of every byte
bytesToHex(bytes) ==
    CHOOSE hex \in {[i \in 1..(2 * Len(b)) |->
                        IF i % 2 = 1 THEN b[(i + 1) \div 2] \div 16
                                     ELSE b[i \div 2] % 16] : b \in {bytes}} : TRUE

\* bytesToBigInt of timelock.ts: (result << 8n) | BigInt(byte) over the bytes
bytesToBigInt(bytes) == StripZeros(bytesToHex(bytes))

\* Number(bigint); see HugeNumber
Number(big) == digitsToNumber(big)

\* Uint8Array.prototype.slice(start, end), positions from 0: both ends are
\* clamped to the length, nothing throws
clamp(n, len) == IF n > len THEN len ELSE n
slice(bytes, start, end) ==
    [i \in 1..(clamp(end, Len(bytes)) - clamp(start, Len(bytes))) |->
        bytes[clamp(start, Len(bytes)) + i]]

\* variant of the turn: the address is read from the operation byte on
multiSendTurn_ToFromOffset(bytesArray_, offset_, transactions_, dataLen) ==
    Return(Append(transactions_,
            [operation |-> bytesArray_[offset_ + 1],
             to |-> bytesToHex(slice(bytesArray_, offset_, offset_ + AddressBytes)),
             value |-> bytesToBigInt(slice(bytesArray_, offset_ + 1 + AddressBytes,
                                          offset_ + 1 + AddressBytes + WordBytes)),
             data |-> <<>>]))

\* one turn of the while loop of decodeMultiSend, then the turns after it
EntryHeader == 1 + AddressBytes + 2 * WordBytes

\* const dataLen = Number(bytesToBigInt(dataLenBytes))
dataLenAt(bytesArray_, offset_) ==
    Number(bytesToBigInt(slice(bytesArray_,
        offset_ + 1 + AddressBytes + WordBytes, offset_ + EntryHeader)))

\* {operation, to, value, data: txData}
entryAt(bytesArray_, offset_, dataLen) ==
    [operation |-> bytesArray_[offset_ + 1],
     to |-> bytesToHex(slice(bytesArray_, offset_ + 1, offset_ + 1 + AddressBytes)),
     value |-> bytesToBigInt(slice(bytesArray_, offset_ + 1 + AddressBytes,
                                  offset_ + 1 + AddressBytes + WordBytes)),
     data |-> bytesToHex(slice(bytesArray_, offset_ + EntryHeader,
                               offset_ + EntryHeader + dataLen))]

\* variant of the advance: the header is not counted
advance_DataOnly(offset_, dataLen) == offset_ + 1 + dataLen

\* offset += 1; offset += 20; offset += 32; offset += 32; offset += dataLen
advance(offset_, dataLen) == offset_ + EntryHeader + dataLen

RECURSIVE multiSendLoop(_, _, _)
multiSendTurn(bytesArray_, offset_, transactions_, dataLen) ==
    multiSendLoop(bytesArray_, advance(offset_, dataLen),
        Append(transactions_, entryAt(bytesArray_, offset_, dataLen)))

multiSendLoop(bytesArray_, offset_, transactions_) ==
    IF offset_ >= Len(bytesArray_) THEN Return(transactions_)
    ELSE multiSendTurn(bytesArray_, offset_, transactions_,
                       dataLenAt(bytesArray_, offset_))

\* the try block of decodeMultiSend
multiSendBytes(bytesArray_) ==
    IF ~bytesArray_.ok THEN Throw ELSE multiSendLoop(bytesArray_.v, 0, <<>>)

\* hexToBytes(packedTxs)
packedBytes(packedTxs) ==
    IF ~packedTxs.ok THEN Throw ELSE hexToBytes(packedTxs.v[1])

multiSendPacked(packedTxs) == multiSendBytes(packedBytes(packedTxs))

decodeMultiSendTry(data) ==
    multiSendPacked(decodeAbiParameters(<<"bytes">>,
                        SubSeq(data, 2 * SelectorBytes + 1, Len(data))))

\* catch { return [] }
orEmpty(r) == IF r.ok THEN r ELSE Return(<<>>)

startsWith(text, prefix) ==
    Len(text) >= Len(prefix) /\ SubSeq(text, 1, Len(prefix)) = prefix

\* variant of decodeMultiSend: no selector test
decodeMultiSend_AnySelector(data) == orEmpty(decodeMultiSendTry(data))

decodeMultiSend(data) ==
    IF ~startsWith(ToLowerCase(data), MULTISEND_SELECTOR) THEN Return(<<>>)
    ELSE orEmpty(decodeMultiSendTry(data))

\* variants of isMultiSendAddress: the address is not lower-cased; every
\* address is a MultiSend contract
isMultiSendAddress_CaseSensitive(address) == address \in MULTISEND_ADDRESSES
isMultiSendAddress_Any(address) == Len(address) >= 0

isMultiSendAddress(address) == ToLowerCase(address) \in MULTISEND_ADDRESSES

\* variant of find: the last transaction to the timelock
RECURSIVE find_Last(_, _, _)
find_Last(txs, i, normalizedTimelock) ==
    IF i > Len(txs) THEN Null
    ELSE IF ToLowerCase(txs[Len(txs) + 1 - i].to) = normalizedTimelock
         THEN txs[Len(txs) + 1 - i].data
    ELSE find_Last(txs, i + 1, normalizedTimelock)

\* txs.find(tx => tx.to.toLowerCase() === normalizedTimelock), then its data
RECURSIVE find(_, _, _)
find(txs, i, normalizedTimelock) ==
    IF i > Len(txs) THEN Null
    ELSE IF ToLowerCase(txs[i].to) = normalizedTimelock THEN txs[i].data
    ELSE find(txs, i + 1, normalizedTimelock)

\* variant of extractTimelockCalldata: the MultiSend rule comes first
extractTimelockCalldata_MultiSendFirst(to, data, timelockAddress) ==
    IF ToLowerCase(to) \in MULTISEND_ADDRESSES
    THEN Null
    ELSE IF ToLowerCase(to) = ToLowerCase(timelockAddress) THEN data
    ELSE Null

extractTimelockCalldata(to, data, timelockAddress) ==
    IF ToLowerCase(to) = ToLowerCase(timelockAddress) THEN data
    ELSE IF isMultiSendAddress(to)
         THEN find(decodeMultiSend(data).v, 1, ToLowerCase(timelockAddress))
         ELSE Null

(***************************************************************************)
(* Inputs                                                                  *)
(***************************************************************************)
\* the longest batch
MaxBatch == 2

ZeroHash == Zeros(WordChars)
\* 0x1234567890abcdef... (TEST_SALT of the tests) and the same in upper case
TestSalt == Repeat(<<1, 2, 3, 4, 5, 6, 7, 8, 9, 0, 10, 11, 12, 13, 14, 15>>, 4)
TestSaltUpper == [i \in 1..WordChars |-> ToUpperChar(TestSalt[i])]

\* 0n, 10^18 (TEST_VALUE of the tests), 2^256 - 1, 86400n (TEST_DELAY)
Zero == <<>>
OneEther == <<13, 14, 0, 11, 6, 11, 3, 10, 7, 6, 4, 0, 0, 0, 0>>
MaxUint256 == [i \in 1..WordChars |-> 15]
OneDay == <<1, 5, 1, 8, 0>>

\* 0x, 0xa9059cbb, 0xA9059CBB, and 33 bytes 0x1234567890abcdef...12
NoData == <<>>
Data4 == <<10, 9, 0, 5, 9, 12, 11, 11>>
Data4Upper == <<26, 9, 0, 5, 9, 28, 27, 27>>
Data33 == TestSalt \o <<1, 2>>

Targets == {AddrDigits, AddrLower, AddrChecksummed}
Values == {Zero, MaxUint256}
Payloads == {NoData, Data4Upper, Data33}
Predecessors == {ZeroHash, TestSaltUpper}
Salts == {ZeroHash, TestSalt}
Delays == {Zero, OneDay}
Ids == {ZeroHash, TestSalt, TestSaltUpper}

\* the operations batches are made of
Operations == {
    [target |-> AddrDigits, value |-> OneEther, data |-> Data4],
    [target |-> AddrLower, value |-> Zero, data |-> NoData],
    [target |-> AddrChecksummed, value |-> MaxUint256, data |-> Data4Upper] }

RECURSIVE SeqsUpTo(_, _)
SeqsUpTo(S, n) ==
    IF n = 0 THEN {<<>>}
    ELSE LET shorter == SeqsUpTo(S, n - 1)
         IN  shorter \cup {Append(q, x) : q \in {r \in shorter : Len(r) = n - 1}, x \in S}

Batches == SeqsUpTo(Operations, MaxBatch)

targetsOf(ops) == [i \in 1..Len(ops) |-> ops[i].target]
valuesOf(ops) == [i \in 1..Len(ops) |-> ops[i].value]
payloadsOf(ops) == [i \in 1..Len(ops) |-> ops[i].data]

NoReq == [fn |-> "none"]
NoOutcome == [ok |-> FALSE, none |-> TRUE]
NoHash == [fn |-> "none"]

(***************************************************************************)
(* Spec: the encode functions and decodeTimelockCalldata applied to what   *)
(* they return                                                             *)
(***************************************************************************)
\* useDecodeCalldata: null, where a result may stand
NoResult == [status |-> "none"]
\* use4ByteDirectory: the query is disabled, pending, failed, or found nothing
Query(status) == [status |-> status]

\* the keys of UrlState the model follows, and a key that holds no value
\* (the key is missing, or its value is undefined or null)
Keys == {"tab", "timelock", "calldata"}
Absent == "undefined"
\* {} of Partial<UrlState>, and a URL without parameters
NoState == [k \in Keys |-> Absent]
\* localStorage.getItem(APP_STATE_KEY): null, or the state stored
NoItem == [stored |-> FALSE, state |-> NoState]
Item(state) == [stored |-> TRUE, state |-> state]

Init ==
    /\ pc = "idle"
    /\ req = NoReq
    /\ enc = NoOutcome
    /\ calldata = <<>>
    /\ tamper = "none"
    /\ dec = NoOutcome
    /\ prevReq = NoReq
    /\ prevEnc = NoOutcome
    /\ prevHash = NoHash
    /\ curHash = NoHash
    /\ abis = <<>>
    /\ userAbiResult = NoResult
    /\ fourByte = Query("disabled")
    /\ bytesArray = <<>>
    /\ offset = 0
    /\ transactions = <<>>
    /\ isIframeMode = FALSE
    /\ currentStateRef = NoState
    /\ debounceRef = "unset"
    /\ elapsed = 0
    /\ url = NoState
    /\ storage = NoItem
    /\ passed = NoState
    /\ cleared = "no"
    /\ setSince = {}
    /\ writes = 0
    /\ calls = 0

\* an encode function returned e for the request r
Encodes(r, e) ==
    /\ pc = "idle"
    /\ req' = r
    /\ enc' = e
    /\ calldata' = IF e.ok THEN e.v.calldata ELSE <<>>
    /\ pc' = "encoded"
    /\ dec' = NoOutcome
    /\ prevReq' = NoReq
    /\ prevEnc' = NoOutcome
    /\ UNCHANGED <<tamper, prevHash, curHash, hookVars, loopVars, urlVars>>

EncodeSchedule ==
    \E t \in Targets, v \in Values, d \in Payloads, p \in Predecessors,
       s \in Salts, dl \in Delays :
        Encodes([fn |-> "schedule", target |-> t, value |-> v, data |-> d,
                 predecessor |-> p, salt |-> s, delay |-> dl],
                encodeSchedule(t, v, d, p, s, dl))

EncodeExecute ==
    \E t \in Targets, v \in Values, d \in Payloads, p \in Predecessors,
       s \in Salts :
        Encodes([fn |-> "execute", target |-> t, value |-> v, data |-> d,
                 predecessor |-> p, salt |-> s],
                encodeExecute(t, v, d, p, s))

EncodeScheduleBatch ==
    \E ops \in Batches, p \in Predecessors, s \in Salts, dl \in Delays :
        Encodes([fn |-> "scheduleBatch", targets |-> targetsOf(ops),
                 values |-> valuesOf(ops), payloads |-> payloadsOf(ops),
                 predecessor |-> p, salt |-> s, delay |-> dl],
                encodeScheduleBatch(targetsOf(ops), valuesOf(ops),
                                    payloadsOf(ops), p, s, dl))

EncodeExecuteBatch ==
    \E ops \in Batches, p \in Predecessors, s \in Salts :
        Encodes([fn |-> "executeBatch", targets |-> targetsOf(ops),
                 values |-> valuesOf(ops), payloads |-> payloadsOf(ops),
                 predecessor |-> p, salt |-> s],
                encodeExecuteBatch(targetsOf(ops), valuesOf(ops),
                                   payloadsOf(ops), p, s))

\* encodeCancel returns the calldata alone
cancelled(c) ==
    IF c.ok THEN Return([calldata |-> c.v]) ELSE Throw

EncodeCancel ==
    \E id \in Ids :
        Encodes([fn |-> "cancel", id |-> id], cancelled(encodeCancel(id)))

\* encodeSchedule / encodeScheduleBatch called again for the request r
encodeAgain(r) ==
    IF r.fn = "schedule"
    THEN encodeSchedule(r.target, r.value, r.data, r.predecessor, r.salt,
                        r.delay)
    ELSE encodeScheduleBatch(r.targets, r.values, r.payloads, r.predecessor,
                             r.salt, r.delay)

Rescheduled(r, e) ==
    /\ prevReq' = req
    /\ prevEnc' = enc
    /\ req' = r
    /\ enc' = e
    /\ calldata' = IF e.ok THEN e.v.calldata ELSE <<>>
    /\ UNCHANGED <<pc, tamper, dec, prevHash, curHash, hookVars, loopVars,
                   urlVars>>

\* the same operation is scheduled again with another delay
Reschedule ==
    /\ pc = "encoded"
    /\ req.fn \in {"schedule", "scheduleBatch"}
    /\ prevReq = NoReq
    /\ \E dl \in Delays \ {req.delay} :
          Rescheduled([req EXCEPT !.delay = dl],
                      encodeAgain([req EXCEPT !.delay = dl]))

\* decodeTimelockCalldata(calldata) on the calldata encoded or received
Decode ==
    /\ pc \in {"encoded", "received"}
    /\ pc = "encoded" => enc.ok
    /\ dec' = decodeTimelockCalldata(calldata)
    /\ pc' = "decoded"
    /\ UNCHANGED <<req, enc, calldata, tamper, prevReq, prevEnc, prevHash, curHash, hookVars, loopVars,
                   urlVars>>

\* the next call starts from a fresh form
Reset ==
    /\ pc \notin {"idle", "looping"}
    /\ pc' = "idle"
    /\ req' = NoReq
    /\ enc' = NoOutcome
    /\ calldata' = <<>>
    /\ tamper' = "none"
    /\ dec' = NoOutcome
    /\ prevReq' = NoReq
    /\ prevEnc' = NoOutcome
    /\ prevHash' = NoHash
    /\ curHash' = NoHash
    /\ userAbiResult' = NoResult
    /\ fourByte' = Query("disabled")
    /\ bytesArray' = <<>>
    /\ offset' = 0
    /\ transactions' = <<>>
    /\ UNCHANGED <<abis, urlVars>>

Next ==
    \/ EncodeSchedule
    \/ EncodeScheduleBatch
    \/ EncodeExecute
    \/ EncodeExecuteBatch
    \/ EncodeCancel
    \/ Reschedule
    \/ Decode
    \/ Reset

Spec == Init /\ [][Next]_vars

(***************************************************************************)
(* DecodeSpec: decodeTimelockCalldata applied to calldata received from    *)
(* outside: well-formed, cut short, with an offset or a length overwritten, *)
(* or not timelock calldata at all                                         *)
(***************************************************************************)
\* well-formed calldata, each with the length in bytes of its last payload,
\* the argument words that hold offsets and those that hold lengths
Received == {
    [fn |-> "schedule",
     calldata |-> encodeSchedule(AddrDigits, OneEther, Data4, ZeroHash,
                                 TestSalt, OneDay).v.calldata,
     lastPayload |-> 4, offsets |-> {2}, lengths |-> {6}],
    [fn |-> "execute",
     calldata |-> encodeExecute(AddrLower, Zero, NoData, TestSalt,
                                ZeroHash).v.calldata,
     lastPayload |-> 0, offsets |-> {2}, lengths |-> {5}],
    [fn |-> "scheduleBatch",
     calldata |-> encodeScheduleBatch(<<AddrDigits, AddrChecksummed>>,
                                      <<OneEther, MaxUint256>>,
                                      <<Data33, Data4Upper>>,
                                      ZeroHash, TestSalt, OneDay).v.calldata,
     lastPayload |-> 4, offsets |-> {0, 1, 2, 13, 14},
     lengths |-> {6, 9, 12, 15, 18}],
    [fn |-> "executeBatch",
     calldata |-> encodeExecuteBatch(<<>>, <<>>, <<>>, ZeroHash,
                                     TestSalt).v.calldata,
     lastPayload |-> 0, offsets |-> {0, 1, 2}, lengths |-> {5, 6, 7}],
    [fn |-> "cancel",
     calldata |-> encodeCancel(TestSalt).v,
     lastPayload |-> 0, offsets |-> {}, lengths |-> {}] }

\* the characters up to the last byte the arguments carry: what follows is
\* the zero padding of the last payload
contentEnd(r) ==
    Len(r.calldata)
        - (IF r.lastPayload = 0 THEN 0
           ELSE 2 * ((WordBytes - (r.lastPayload % WordBytes)) % WordBytes))

\* the selectors of multiSend(bytes), of getMinDelay() and of
\* getTimestamp(bytes32), and the selector of cancel in upper case
MultiSendSelector == <<8, 13, 8, 0, 15, 15, 0, 10>>
GetMinDelaySelector == AbiItem("getMinDelay").selector
GetTimestampSelector == AbiItem("getTimestamp").selector
CancelSelectorUpper == <<28, 4, 29, 2, 5, 2, 31, 5>>
ScheduleArgs ==
    SubSeq(encodeSchedule(AddrDigits, OneEther, Data4, ZeroHash, TestSalt,
                          OneDay).v.calldata,
           2 * SelectorBytes + 1, 520)

\* texts that are not calldata of the five calls
Garbage == {
    <<>>, <<0, 1>>, <<0, 1, 13, 5>>, <<0, 1, 13, 5, 0, 6>>,
    <<0, 1, 13, 5, 0, 6, 2>>,
    AbiItem("schedule").selector,
    AbiItem("cancel").selector,
    MultiSendSelector,
    MultiSendSelector \o ScheduleArgs,
    <<15, 15, 15, 15, 15, 15, 15, 15>> \o TestSalt,
    <<0, 0, 0, 0, 0, 0, 0, 0>> \o ScheduleArgs,
    GetMinDelaySelector,
    GetTimestampSelector \o TestSalt,
    CancelSelectorUpper \o TestSalt,
    AbiItem("cancel").selector \o <<32, 32>> \o SubSeq(TestSalt, 3, WordChars),
    <<32, 32, 32, 32, 32, 32, 32, 32>> \o TestSalt }

\* calldata arrives
Receives(r) ==
    /\ pc = "idle"
    /\ pc' = "received"
    /\ req' = r
    /\ calldata' = r.calldata
    /\ tamper' = "none"
    /\ UNCHANGED <<enc, dec, prevReq, prevEnc, prevHash, curHash, hookVars, loopVars,
                   urlVars>>

ReceiveCall == \E r \in Received : Receives(r)

ReceiveGarbage ==
    \E g \in Garbage : Receives([fn |-> "garbage", calldata |-> g])

\* the read-only functions of TIMELOCK_ABI
ViewFunctions ==
    {"getMinDelay", "isOperation", "isOperationPending", "isOperationReady",
     "isOperationDone", "getTimestamp"}

\* calldata of a read-only function arrives
ReceiveView ==
    \E f \in ViewFunctions, id \in {ZeroHash, TestSaltUpper} :
        Receives([fn |-> "garbage", view |-> f,
                  calldata |-> encodeFunctionData(f, <<id>>).v])

\* batch calldata made by another program arrives: its three arrays are
\* encoded one by one and need not have the same length
CraftedTargets == SeqsUpTo({AddrLower, AddrDigits}, MaxBatch)
CraftedValues == SeqsUpTo({Zero, OneEther}, MaxBatch)
CraftedPayloads == SeqsUpTo({NoData, Data4}, MaxBatch)

ReceiveCrafted ==
    \E f \in {"scheduleBatch", "executeBatch"}, ts \in CraftedTargets,
       vs \in CraftedValues, ps \in CraftedPayloads :
        Receives([fn |-> "garbage", crafted |-> f, targets |-> ts,
                  values |-> vs, payloads |-> ps,
                  calldata |-> encodeFunctionData(f,
                      <<ts, vs, ps, ZeroHash, TestSalt, OneDay>>).v])

Tampered(kind, c) ==
    /\ pc = "received"
    /\ req.fn # "garbage"
    /\ tamper = "none"
    /\ tamper' = kind
    /\ calldata' = c
    /\ UNCHANGED <<pc, req, enc, dec, prevReq, prevEnc, prevHash, curHash, hookVars, loopVars,
                   urlVars>>

\* the calldata loses its last bytes: some of the bytes the arguments carry,
\* or only zero padding
Truncate ==
    \E n \in SelectorBytes..(size(calldata) - 1) :
        Tampered(IF 2 * n < contentEnd(req) THEN "truncated" ELSE "unpadded",
                 SubSeq(calldata, 1, 2 * n))

\* the size of the arguments, 2^24 and 2^255: none is a position in the
\* arguments, or a length that fits in them
OutOfRange(c) ==
    { numberToWord(size(c) - SelectorBytes),
      numberToWord(HugeNumber),
      <<8>> \o Zeros(WordChars - 1) }

\* the text c with argument word w replaced by word
setWord(c, w, word) ==
    SubSeq(c, 1, 2 * SelectorBytes + WordChars * w)
        \o word
        \o SubSeq(c, 2 * SelectorBytes + WordChars * (w + 1) + 1, Len(c))

\* an offset of the calldata is overwritten and points outside the arguments
SetOffset ==
    \E w \in (IF pc = "received" /\ req.fn # "garbage" THEN req.offsets ELSE {}) :
        \E word \in OutOfRange(calldata) :
            Tampered("offset", setWord(calldata, w, word))

\* a length of the calldata is overwritten and runs past the end
SetLength ==
    \E w \in (IF pc = "received" /\ req.fn # "garbage" THEN req.lengths ELSE {}) :
        \E word \in OutOfRange(calldata) :
            Tampered("length", setWord(calldata, w, word))

DecodeNext ==
    \/ ReceiveCall
    \/ ReceiveGarbage
    \/ ReceiveView
    \/ ReceiveCrafted
    \/ Truncate
    \/ SetOffset
    \/ SetLength
    \/ Decode
    \/ Reset

DecodeSpec == Init /\ [][DecodeNext]_vars

(***************************************************************************)
(* HashSpec: hashOperation and hashOperationBatch, called again with the   *)
(* same arguments or with one argument changed, and the encode functions   *)
(***************************************************************************)
\* 0xa9059cbb00: Data4 followed by a zero byte
Data4Zero == Data4 \o <<0, 0>>
HashPayloads == Payloads \cup {Data4, Data4Zero}

Hashed(h) ==
    /\ pc = "idle"
    /\ pc' = "hashed"
    /\ curHash' = h
    /\ prevHash' = NoHash
    /\ UNCHANGED <<req, enc, calldata, tamper, dec, prevReq, prevEnc, hookVars, loopVars,
                   urlVars>>

HashOperation ==
    \E t \in Targets, v \in Values, d \in HashPayloads, p \in Predecessors,
       s \in Salts :
        Hashed([fn |-> "hashOperation", target |-> t, value |-> v,
                data |-> d, predecessor |-> p, salt |-> s,
                id |-> hashOperation(t, v, d, p, s)])

HashOperationBatch ==
    \E ops \in Batches, p \in Predecessors, s \in Salts :
        Hashed([fn |-> "hashOperationBatch", targets |-> targetsOf(ops),
                values |-> valuesOf(ops), payloads |-> payloadsOf(ops),
                predecessor |-> p, salt |-> s,
                id |-> hashOperationBatch(targetsOf(ops), valuesOf(ops),
                                          payloadsOf(ops), p, s)])

\* the hash function of h called with the arguments of h
hashAgain(h) ==
    IF h.fn = "hashOperation"
    THEN hashOperation(h.target, h.value, h.data, h.predecessor, h.salt)
    ELSE hashOperationBatch(h.targets, h.values, h.payloads, h.predecessor,
                            h.salt)

Rehashed(h) ==
    /\ pc = "hashed"
    /\ prevHash = NoHash
    /\ prevHash' = curHash
    /\ curHash' = [h EXCEPT !.id = hashAgain(h)]
    /\ UNCHANGED <<pc, req, enc, calldata, tamper, dec, prevReq, prevEnc, hookVars, loopVars,
                   urlVars>>

\* the same call once more
Rehash == Rehashed(curHash)

\* hashOperation called with one argument changed
ChangeTarget ==
    /\ curHash.fn = "hashOperation"
    /\ \E t \in Targets \ {curHash.target} :
          Rehashed([curHash EXCEPT !.target = t])

ChangeValue ==
    /\ curHash.fn = "hashOperation"
    /\ \E v \in Values \ {curHash.value} :
          Rehashed([curHash EXCEPT !.value = v])

ChangeData ==
    /\ curHash.fn = "hashOperation"
    /\ \E d \in HashPayloads \ {curHash.data} :
          Rehashed([curHash EXCEPT !.data = d])

ChangePredecessor ==
    /\ curHash.fn = "hashOperation"
    /\ \E p \in Predecessors \ {curHash.predecessor} :
          Rehashed([curHash EXCEPT !.predecessor = p])

ChangeSalt ==
    /\ curHash.fn = "hashOperation"
    /\ \E x \in Salts \ {curHash.salt} :
          Rehashed([curHash EXCEPT !.salt = x])

HashNext ==
    \/ HashOperation
    \/ HashOperationBatch
    \/ Rehash
    \/ ChangeTarget
    \/ ChangeValue
    \/ ChangeData
    \/ ChangePredecessor
    \/ ChangeSalt
    \/ EncodeSchedule
    \/ EncodeScheduleBatch
    \/ EncodeExecute
    \/ EncodeExecuteBatch
    \/ EncodeCancel
    \/ Reset

HashSpec == Init /\ [][HashNext]_vars

(***************************************************************************)
(* MultiSendSpec: decodeMultiSend applied to packed transactions (whole,   *)
(* cut short, in a damaged wrapper), extractTimelockCalldata and           *)
(* isMultiSendAddress                                                      *)
(***************************************************************************)
\* the most transactions in a stream
MaxTxs == 2

\* packMultiSendTx of the tests: operation, to, value, data length, data
packTx(tx) ==
    <<0, tx.operation>> \o ToLowerCase(tx.to) \o padLeft(tx.value, WordBytes)
        \o numberToWord(Len(tx.data) \div 2) \o tx.data

packMultiSendTx(txs) == Concat([i \in 1..Len(txs) |-> packTx(txs[i])])

\* encodeMultiSendCalldata of the tests: the selector, then the stream
\* encoded as one bytes parameter
encodeMultiSendCalldata(selector, packedTxs) ==
    selector \o encodeAbiParameters(<<"bytes">>, <<packedTxs>>).v

MultiSendSelectorUpper == <<8, 29, 8, 0, 31, 31, 0, 26>>

\* a call, a delegatecall without data, and more than a word of data behind
\* an operation byte that is neither
TestTxs == {
    [operation |-> 0, to |-> AddrDigits, value |-> OneEther, data |-> Data4],
    [operation |-> 1, to |-> AddrLower, value |-> Zero, data |-> NoData],
    [operation |-> 2, to |-> AddrChecksummed, value |-> MaxUint256,
     data |-> Data33] }

Streams == SeqsUpTo(TestTxs, MaxTxs)

\* multiSend calldata arrives: kept is the number of bytes of the stream
PackMultiSend ==
    \E txs \in Streams, selector \in {MULTISEND_SELECTOR, MultiSendSelectorUpper} :
        Receives([fn |-> "multiSend", txs |-> txs, selector |-> selector,
                  calldata |-> encodeMultiSendCalldata(selector,
                                                       packMultiSendTx(txs)),
                  kept |-> Len(packMultiSendTx(txs)) \div 2,
                  lastPayload |-> Len(packMultiSendTx(txs)) \div 2,
                  offsets |-> {0}, lengths |-> {1}])

\* the same wrapper arrives behind the selector of another function
PackForAnother ==
    \E txs \in Streams :
        Receives([fn |-> "garbage",
                  calldata |-> encodeMultiSendCalldata(GetMinDelaySelector,
                                                       packMultiSendTx(txs))])

\* the number of bytes of the stream before its j-th transaction
RECURSIVE StartOf(_, _)
StartOf(txs, j) ==
    IF j = 1 THEN 0 ELSE StartOf(txs, j - 1) + Len(packTx(txs[j - 1])) \div 2

\* the positions in the stream at which one of its transactions ends
RECURSIVE Boundaries(_)
Boundaries(txs) ==
    IF txs = <<>> THEN {0}
    ELSE {0} \cup {Len(packTx(Head(txs))) \div 2 + b : b \in Boundaries(Tail(txs))}

\* the stream ends in the middle of a transaction, after n bytes
CutStream ==
    /\ pc = "received"
    /\ req.fn = "multiSend"
    /\ tamper = "none"
    /\ \E n \in (1..req.kept) \ Boundaries(req.txs) :
          /\ req' = [req EXCEPT !.kept = n]
          /\ calldata' = encodeMultiSendCalldata(req.selector,
                            SubSeq(packMultiSendTx(req.txs), 1, 2 * n))
    /\ tamper' = "stream cut"
    /\ UNCHANGED <<pc, enc, dec, prevReq, prevEnc, prevHash, curHash, hookVars, loopVars,
                   urlVars>>

\* decodeMultiSend(calldata) on the calldata received
DecodeMultiSend ==
    /\ pc = "received"
    /\ dec' = decodeMultiSend(calldata)
    /\ pc' = "decoded"
    /\ UNCHANGED <<req, enc, calldata, tamper, prevReq, prevEnc, prevHash, curHash, hookVars, loopVars,
                   urlVars>>

\* the timelock, in two spellings, and a MultiSend contract
TimelockAddresses == {AddrLower, AddrChecksummed, MultiSend130}

\* 0x40A2ACCBD92BCA938B02010E17A5B8929B49130D
MultiSend130Upper == [i \in 1..Len(MultiSend130) |-> ToUpperChar(MultiSend130[i])]

ToAddresses ==
    {AddrLower, AddrChecksummed, AddrDigits, MultiSend130, MultiSend130Upper,
     MultiSendCallOnly141}

\* data that wraps a stream of transactions, and data that wraps none
ExtractData ==
    {[txs |-> txs,
      data |-> encodeMultiSendCalldata(MULTISEND_SELECTOR, packMultiSendTx(txs))] :
        txs \in Streams}
        \cup {[txs |-> <<>>, data |-> d] :
                d \in {NoData, Data4Upper, ScheduleArgs, MULTISEND_SELECTOR}}

Extracted(r, result) ==
    /\ pc = "idle"
    /\ pc' = "extracted"
    /\ req' = r
    /\ calldata' = r.data
    /\ dec' = Return(result)
    /\ UNCHANGED <<enc, tamper, prevReq, prevEnc, prevHash, curHash, hookVars, loopVars,
                   urlVars>>

\* extractTimelockCalldata(to, data, timelockAddress)
ExtractTimelockCalldata ==
    \E to \in ToAddresses, d \in ExtractData, tl \in TimelockAddresses :
        Extracted([fn |-> "extractTimelockCalldata", to |-> to,
                   data |-> d.data, txs |-> d.txs, timelockAddress |-> tl],
                  extractTimelockCalldata(to, d.data, tl))

\* the addresses asked about: the four of the list, other spellings of them,
\* and others
AskedAddresses ==
    MULTISEND_ADDRESSES
        \cup {MultiSend130Upper, checksumAddress(MultiSend141), AddrDigits,
              AddrLower, NoData, SubSeq(MultiSend130, 1, 39),
              MultiSend130 \o <<0>>}

\* isMultiSendAddress(address), first or after another call
IsMultiSendAddress ==
    /\ pc \in {"idle", "extracted"}
    /\ pc' = "answered"
    /\ \E a \in AskedAddresses :
          /\ req' = [fn |-> "isMultiSendAddress", address |-> a]
          /\ dec' = Return(isMultiSendAddress(a))
    /\ UNCHANGED <<enc, calldata, tamper, prevReq, prevEnc, prevHash, curHash, hookVars, loopVars,
                   urlVars>>

MultiSendNext ==
    \/ PackMultiSend
    \/ PackForAnother
    \/ ReceiveGarbage
    \/ Truncate
    \/ SetOffset
    \/ SetLength
    \/ CutStream
    \/ DecodeMultiSend
    \/ ExtractTimelockCalldata
    \/ IsMultiSendAddress
    \/ Reset

MultiSendSpec == Init /\ [][MultiSendNext]_vars

(***************************************************************************)
(* EncodeSpec: the encoders are called with whatever text the form holds   *)
(***************************************************************************)
\* a character that is no hex digit
NonHexChar == 32

\* 0xabc, 0xabzz
OddData == <<10, 11, 12>>
NonHexData == <<10, 11, NonHexChar, NonHexChar>>
\* bytes32 texts: a digit short, a byte short, a byte long, two letters z
OddWord == SubSeq(TestSalt, 1, WordChars - 1)
ShortWord == SubSeq(TestSalt, 1, WordChars - 2)
LongWord == TestSalt \o <<0, 0>>
NonHexWord == <<NonHexChar, NonHexChar>> \o SubSeq(TestSalt, 3, WordChars)
\* address texts: a digit short, a byte short, a letter z
OddTarget == SubSeq(AddrLower, 1, 2 * AddressBytes - 1)
ShortTarget == SubSeq(AddrLower, 1, 2 * AddressBytes - 2)
NonHexTarget == <<NonHexChar>> \o SubSeq(AddrLower, 2, 2 * AddressBytes)

FormTargets == {AddrLower, OddTarget, ShortTarget, NonHexTarget}
FormPayloads == {Data4, OddData, NonHexData}
FormWords == {TestSalt, OddWord, ShortWord, LongWord, NonHexWord}
FormOperations ==
    {[target |-> AddrLower, value |-> OneEther, data |-> Data4],
     [target |-> OddTarget, value |-> Zero, data |-> NoData],
     [target |-> AddrDigits, value |-> Zero, data |-> OddData],
     [target |-> AddrDigits, value |-> OneEther, data |-> NonHexData]}
FormBatches == SeqsUpTo(FormOperations, MaxBatch)

FormSchedule ==
    \E t \in FormTargets, d \in FormPayloads, p \in FormWords, s \in FormWords :
        Encodes([fn |-> "schedule", target |-> t, value |-> OneEther,
                 data |-> d, predecessor |-> p, salt |-> s, delay |-> OneDay],
                encodeSchedule(t, OneEther, d, p, s, OneDay))

FormExecute ==
    \E t \in FormTargets, d \in FormPayloads, p \in FormWords, s \in FormWords :
        Encodes([fn |-> "execute", target |-> t, value |-> OneEther,
                 data |-> d, predecessor |-> p, salt |-> s],
                encodeExecute(t, OneEther, d, p, s))

FormScheduleBatch ==
    \E ops \in FormBatches, p \in FormWords, s \in FormWords :
        Encodes([fn |-> "scheduleBatch", targets |-> targetsOf(ops),
                 values |-> valuesOf(ops), payloads |-> payloadsOf(ops),
                 predecessor |-> p, salt |-> s, delay |-> OneDay],
                encodeScheduleBatch(targetsOf(ops), valuesOf(ops),
                                    payloadsOf(ops), p, s, OneDay))

FormExecuteBatch ==
    \E ops \in FormBatches, p \in FormWords, s \in FormWords :
        Encodes([fn |-> "executeBatch", targets |-> targetsOf(ops),
                 values |-> valuesOf(ops), payloads |-> payloadsOf(ops),
                 predecessor |-> p, salt |-> s],
                encodeExecuteBatch(targetsOf(ops), valuesOf(ops),
                                   payloadsOf(ops), p, s))

FormCancel ==
    \E id \in FormWords :
        Encodes([fn |-> "cancel", id |-> id], cancelled(encodeCancel(id)))

EncodeNext ==
    \/ FormSchedule
    \/ FormExecute
    \/ FormScheduleBatch
    \/ FormExecuteBatch
    \/ FormCancel
    \/ Reset

EncodeSpec == Init /\ [][EncodeNext]_vars

(***************************************************************************)
(* src/unnamed/part_008 (lib/selectors): the local selector table          *)
(***************************************************************************)
\* getSelector returned null
NoSelector == <<-3>>

\* calldata.slice(0, 10).toLowerCase(), null below 10 characters
getSelector(calldata_) ==
    IF calldata_ = Undefined \/ Len(calldata_) < 2 * SelectorBytes THEN NoSelector
    ELSE ToLowerCase(SubSeq(calldata_, 1, 2 * SelectorBytes))

\* four of the entries of KNOWN_SELECTORS
KNOWN_SELECTORS == <<
    [selector |-> <<10, 9, 0, 5, 9, 12, 11, 11>>, type |-> "function",
     name |-> "transfer", signature |-> "transfer(address,uint256)",
     inputs |-> <<"address", "uint256">>],
    [selector |-> <<0, 9, 5, 14, 10, 7, 11, 3>>, type |-> "function",
     name |-> "approve", signature |-> "approve(address,uint256)",
     inputs |-> <<"address", "uint256">>],
    [selector |-> <<8, 4, 5, 6, 12, 11, 5, 9>>, type |-> "function",
     name |-> "pause", signature |-> "pause()", inputs |-> <<>>],
    [selector |-> <<2, 15, 2, 15, 15, 1, 5, 13>>, type |-> "function",
     name |-> "grantRole", signature |-> "grantRole(bytes32,address)",
     inputs |-> <<"bytes32", "address">>] >>

\* decodeWithAbi(calldata, abi): viem decodeFunctionData with the first
\* function of abi whose selector is the text of the first 4 bytes; null
\* (not ok) when it throws
abiFunctions(abi, selector) ==
    {i \in 1..Len(abi) : abi[i].type = "function" /\ abi[i].selector = selector}

decodeWithFound(abi, found, calldata_) ==
    IF found = {} THEN Throw ELSE decodeItem(abi[First(found)], calldata_)

decodeWithAbi(calldata_, abi) ==
    decodeWithFound(abi, abiFunctions(abi, selectorOf(calldata_)), calldata_)

unknown(selector) ==
    [status |-> "unknown", source |-> "null", selector |-> selector]

\* the result for an entry of the table
knownResult(selector, selectorInfo, decoded) ==
    IF ~decoded.ok
    THEN [status |-> "signature-only", source |-> "local", selector |-> selector,
          functionName |-> selectorInfo.name,
          signature |-> selectorInfo.signature]
    ELSE [status |-> "decoded", source |-> "local", selector |-> selector,
          functionName |-> selectorInfo.name,
          signature |-> selectorInfo.signature, params |-> decoded.v.args]

knownEntry(calldata_, selector, entries) ==
    IF entries = {} THEN unknown(selector)
    ELSE knownResult(selector, KNOWN_SELECTORS[First(entries)],
            decodeWithAbi(calldata_, <<KNOWN_SELECTORS[First(entries)]>>))

knownSelector(calldata_, selector) ==
    IF selector = NoSelector THEN unknown(<<>>)
    ELSE knownEntry(calldata_, selector,
            {i \in 1..Len(KNOWN_SELECTORS) :
                KNOWN_SELECTORS[i].selector = selector})

decodeWithKnownSelectors(calldata_) ==
    knownSelector(calldata_, getSelector(calldata_))

(***************************************************************************)
(* src/src/lib/format-decimals.ts (lib/abi-storage): the user's ABIs       *)
(***************************************************************************)
MaxAbis == 2

\* extractSelectors(abi): the selectors of its functions
RECURSIVE extractSelectors(_)
extractSelectors(abi) ==
    IF abi = <<>> THEN <<>>
    ELSE (IF Head(abi).type = "function" THEN <<Head(abi).selector>> ELSE <<>>)
            \o extractSelectors(Tail(abi))

\* saveAbi(name, abi), with the id it generates
saveAbi(existing, id, name, abi) ==
    Append(existing, [id |-> id, name |-> name, abi |-> abi,
                      selectors |-> extractSelectors(abi)])

\* deleteAbi(id)
deleteAbi(existing, id) == SelectSeq(existing, LAMBDA a : a.id # id)

Includes(seq, x) == \E i \in 1..Len(seq) : seq[i] = x

\* variant of findAbiBySelector: no stored ABI is found
findAbiBySelector_None(stored, selector) ==
    IF Len(stored) < 0 THEN stored[1] ELSE NoResult

\* findAbiBySelector(selector): the first stored ABI that lists it, or null
findAbiBySelector(stored, selector) ==
    IF \A i \in 1..Len(stored) : ~Includes(stored[i].selectors, ToLowerCase(selector))
    THEN NoResult
    ELSE stored[First({i \in 1..Len(stored) :
                        Includes(stored[i].selectors, ToLowerCase(selector))})]

\* getFunctionFromAbi(abi, selector): the first function with the selector
getFunctionFromAbi(abi, selector) ==
    IF abiFunctions(abi, ToLowerCase(selector)) = {} THEN NoResult
    ELSE [name |-> abi[First(abiFunctions(abi, ToLowerCase(selector)))].name,
          inputs |-> abi[First(abiFunctions(abi, ToLowerCase(selector)))].inputs]

(***************************************************************************)
(* src/unnamed/part_000 (hooks/useDecodeCalldata)                          *)
(***************************************************************************)
\* the user ABI result: decoded, or the signature alone when decoding throws
userAbiDecoded(selector, funcInfo, decoded) ==
    IF decoded.ok
    THEN [status |-> "decoded", source |-> "user-abi", selector |-> selector,
          functionName |-> funcInfo.name,
          signature |-> <<funcInfo.name, funcInfo.inputs>>,
          params |-> decoded.v.args]
    ELSE [status |-> "signature-only", source |-> "user-abi",
          selector |-> selector, functionName |-> funcInfo.name,
          signature |-> <<funcInfo.name, funcInfo.inputs>>]

userAbiFunction(calldata_, selector, storedAbi, funcInfo) ==
    IF funcInfo = NoResult THEN NoResult
    ELSE userAbiDecoded(selector, funcInfo, decodeWithAbi(calldata_, storedAbi.abi))

userAbiStored(calldata_, selector, storedAbi) ==
    IF storedAbi = NoResult THEN NoResult
    ELSE userAbiFunction(calldata_, selector, storedAbi,
            getFunctionFromAbi(storedAbi.abi, selector))

\* const localResult = useMemo(...)
localResultOf(calldata_, selector, result) ==
    IF calldata_ = Undefined \/ selector = NoSelector THEN NoResult
    ELSE IF result.status # "unknown" THEN result ELSE NoResult

\* const userAbiResult = useMemo(...), computed from the ABIs stored then
userAbiResultOf(localResult, calldata_, selector, stored) ==
    IF localResult # NoResult \/ calldata_ = Undefined \/ selector = NoSelector
    THEN NoResult
    ELSE userAbiStored(calldata_, selector, findAbiBySelector(stored, selector))

shouldQuery4Byte(localResult, userAbiResult_, selector) ==
    localResult = NoResult /\ userAbiResult_ = NoResult /\ selector # NoSelector

\* decodeWith4ByteSignature: the parameters decoded with the signature's
\* types, null without types or when decoding throws
decodeWith4ByteSignature(calldata_, parsed) ==
    IF Len(parsed.params) = 0 THEN Throw
    ELSE decodeAbiParameters(parsed.params,
            SubSeq(calldata_, 2 * SelectorBytes + 1, Len(calldata_)))

fourByteResult(selector, parsed, params) ==
    IF params.ok /\ Len(params.v) > 0
    THEN [status |-> "decoded", source |-> "4byte", selector |-> selector,
          functionName |-> parsed.name, signature |-> <<parsed.name, parsed.params>>,
          params |-> params.v]
    ELSE [status |-> "signature-only", source |-> "4byte", selector |-> selector,
          functionName |-> parsed.name, signature |-> <<parsed.name, parsed.params>>]

\* const result = useMemo(...): local, user ABI, no selector, 4byte, unknown
resultOf(localResult, userAbiResult_, selector, fourByteSignature, calldata_) ==
    IF localResult # NoResult THEN localResult
    ELSE IF userAbiResult_ # NoResult THEN userAbiResult_
    ELSE IF selector = NoSelector THEN unknown(<<>>)
    ELSE IF fourByteSignature.status = "found" /\ calldata_ # Undefined
         THEN fourByteResult(selector, fourByteSignature,
                decodeWith4ByteSignature(calldata_, fourByteSignature))
    ELSE unknown(selector)

\* what useDecodeCalldata returns: {...result, isLoading}
hookReturns(localResult, userAbiResult_, selector, query, calldata_) ==
    [isLoading |-> shouldQuery4Byte(localResult, userAbiResult_, selector)
                        /\ query.status = "pending"]
        @@ resultOf(localResult, userAbiResult_, selector, query, calldata_)

useDecodeCalldata(calldata_, userAbiResult_, query) ==
    hookReturns(localResultOf(calldata_, getSelector(calldata_),
                              decodeWithKnownSelectors(calldata_)),
                userAbiResult_, getSelector(calldata_), query, calldata_)

(***************************************************************************)
(* HookSpec: inner calldata is rendered, ABIs are stored and deleted, the  *)
(* 4byte.directory query settles                                           *)
(***************************************************************************)
SetValueSelector == <<5, 8, 8, 2, 5, 11, 1, 0>>
SetValueSelectorUpper == <<5, 8, 8, 2, 5, 27, 1, 0>>
SetOwnerSelector == <<1, 3, 10, 15, 4, 0, 3, 5>>
TransferSelector == KNOWN_SELECTORS[1].selector
TransferSelectorUpper == <<26, 9, 0, 5, 9, 28, 27, 27>>
PauseSelector == KNOWN_SELECTORS[3].selector

\* the ABIs the user stores: an event and setValue(bytes32);
\* transfer(address,uint256) and setOwner(address)
ValueAbi == <<
    [type |-> "event", name |-> "ValueSet", inputs |-> <<"bytes32">>],
    [type |-> "function", name |-> "setValue", inputs |-> <<"bytes32">>,
     selector |-> SetValueSelector] >>
TokenAbi == <<
    [type |-> "function", name |-> "transfer",
     inputs |-> <<"address", "uint256">>, selector |-> TransferSelector],
    [type |-> "function", name |-> "setOwner", inputs |-> <<"address">>,
     selector |-> SetOwnerSelector] >>
UserAbis == {[name |-> "Value", abi |-> ValueAbi], [name |-> "Token", abi |-> TokenAbi]}

TransferArgs == encodeAbiParameters(<<"address", "uint256">>, <<AddrLower, OneEther>>).v

\* the inner calldata the components are given
InnerCalldata == {
    Undefined, <<>>, <<10, 9, 0, 5>>, SubSeq(SetValueSelector, 1, 7),
    TransferSelector \o TransferArgs,
    TransferSelectorUpper \o TransferArgs,
    TransferSelector \o SubSeq(TransferArgs, 1, WordChars),
    PauseSelector,
    SetValueSelector \o TestSalt,
    SetValueSelectorUpper \o TestSalt,
    SetValueSelector \o SubSeq(TestSalt, 1, 10),
    SetOwnerSelector \o Zeros(WordChars - 2 * AddressBytes) \o AddrLower,
    <<1, 2, 3, 4, 5, 6, 7, 8>> \o TestSalt }

\* the signatures 4byte.directory may answer with, parsed
FoundSignatures ==
    {[status |-> "found", name |-> "setValue", params |-> <<"bytes32">>],
     [status |-> "found", name |-> "unpause", params |-> <<>>]}

\* a component with useDecodeCalldata(c) mounts, or its calldata changes
Render ==
    /\ pc \in {"idle", "rendered"}
    /\ \E c \in InnerCalldata :
          /\ pc = "rendered" => c # calldata
          /\ calldata' = c
          /\ req' = [fn |-> "useDecodeCalldata", calldata |-> c, abis |-> abis]
          /\ userAbiResult' =
                userAbiResultOf(localResultOf(c, getSelector(c),
                                              decodeWithKnownSelectors(c)),
                                c, getSelector(c), abis)
          /\ fourByte' =
                IF shouldQuery4Byte(localResultOf(c, getSelector(c),
                                                  decodeWithKnownSelectors(c)),
                                    userAbiResult', getSelector(c))
                THEN Query("pending") ELSE Query("disabled")
          /\ dec' = Return(useDecodeCalldata(c, userAbiResult', fourByte'))
    /\ pc' = "rendered"
    /\ UNCHANGED <<enc, tamper, prevReq, prevEnc, prevHash, curHash, abis, loopVars,
                   urlVars>>

\* the 4byte.directory query fails, finds nothing, or finds a signature
Settle ==
    /\ pc = "rendered"
    /\ fourByte = Query("pending")
    /\ \E answer \in {Query("error"), Query("empty")} \cup FoundSignatures :
          /\ fourByte' = answer
          /\ dec' = Return(useDecodeCalldata(calldata, userAbiResult, answer))
    /\ UNCHANGED <<pc, req, enc, calldata, tamper, prevReq, prevEnc, prevHash,
                   curHash, abis, userAbiResult, loopVars, urlVars>>

\* AbiManager: addAbi(name, json); the rendered components keep their memo
AddAbi ==
    /\ pc \in {"idle", "rendered"}
    /\ Len(abis) < MaxAbis
    /\ \E a \in UserAbis,
          id \in (1..MaxAbis) \ {abis[i].id : i \in 1..Len(abis)} :
            abis' = saveAbi(abis, id, a.name, a.abi)
    /\ UNCHANGED <<pc, req, enc, calldata, tamper, dec, prevReq, prevEnc,
                   prevHash, curHash, userAbiResult, fourByte, loopVars,
                   urlVars>>

\* AbiManager: removeAbi(id)
RemoveAbi ==
    /\ pc \in {"idle", "rendered"}
    /\ \E i \in 1..Len(abis) : abis' = deleteAbi(abis, abis[i].id)
    /\ UNCHANGED <<pc, req, enc, calldata, tamper, dec, prevReq, prevEnc,
                   prevHash, curHash, userAbiResult, fourByte, loopVars,
                   urlVars>>

HookNext ==
    \/ Render
    \/ Settle
    \/ AddAbi
    \/ RemoveAbi
    \/ Reset

HookSpec == Init /\ [][HookNext]_vars

(***************************************************************************)
(* LoopSpec: the while loop of decodeMultiSend, turn by turn               *)
(***************************************************************************)
\* the last transaction of the stream announces more data than follows it:
\* one byte more, or 2^256 - 1 bytes
AnnounceLength ==
    /\ pc = "received"
    /\ req.fn = "multiSend"
    /\ tamper = "none"
    /\ Len(req.txs) > 0
    /\ \E w \in {padLeft(MaxUint256, WordBytes),
                 numberToWord(Len(req.txs[Len(req.txs)].data) \div 2 + 1)} :
          calldata' = encodeMultiSendCalldata(req.selector,
              SubSeq(packMultiSendTx(req.txs), 1,
                     2 * (StartOf(req.txs, Len(req.txs)) + EntryHeader - WordBytes))
                \o w \o req.txs[Len(req.txs)].data)
    /\ tamper' = "announced"
    /\ UNCHANGED <<pc, req, enc, dec, prevReq, prevEnc, prevHash, curHash,
                   hookVars, loopVars, urlVars>>

\* the bytes of the stream, when the try block comes as far as the loop
streamOf(data) ==
    packedBytes(decodeAbiParameters(<<"bytes">>,
                    SubSeq(data, 2 * SelectorBytes + 1, Len(data))))

\* decodeMultiSend(calldata) is called: it returns [] at once, or enters
\* the loop with offset = 0
StartLoop ==
    /\ pc = "received"
    /\ IF startsWith(ToLowerCase(calldata), MULTISEND_SELECTOR)
            /\ streamOf(calldata).ok
       THEN /\ pc' = "looping"
            /\ bytesArray' = streamOf(calldata).v
            /\ dec' = dec
       ELSE /\ pc' = "decoded"
            /\ bytesArray' = <<>>
            /\ dec' = Return(<<>>)
    /\ offset' = 0
    /\ transactions' = <<>>
    /\ UNCHANGED <<req, enc, calldata, tamper, prevReq, prevEnc, prevHash,
                   curHash, hookVars, urlVars>>

\* while (offset < bytesArray.length) { ... transactions.push(...) }
LoopTurn ==
    /\ pc = "looping"
    /\ offset < Len(bytesArray)
    /\ \E dataLen \in {dataLenAt(bytesArray, offset)} :
          /\ transactions' =
                Append(transactions, entryAt(bytesArray, offset, dataLen))
          /\ offset' = advance(offset, dataLen)
    /\ UNCHANGED <<pc, req, enc, calldata, tamper, dec, prevReq, prevEnc,
                   prevHash, curHash, hookVars, bytesArray, urlVars>>

\* return transactions
LoopEnd ==
    /\ pc = "looping"
    /\ offset >= Len(bytesArray)
    /\ dec' = Return(transactions)
    /\ pc' = "decoded"
    /\ UNCHANGED <<req, enc, calldata, tamper, prevReq, prevEnc, prevHash,
                   curHash, hookVars, loopVars, urlVars>>

LoopNext ==
    \/ PackMultiSend
    \/ PackForAnother
    \/ ReceiveGarbage
    \/ Truncate
    \/ SetLength
    \/ CutStream
    \/ AnnounceLength
    \/ StartLoop
    \/ LoopTurn
    \/ LoopEnd
    \/ Reset

LoopSpec == Init /\ [][LoopNext]_vars

\* a call of decodeMultiSend runs to its end: nothing else runs meanwhile
LoopLive == LoopSpec /\ WF_vars(LoopTurn) /\ WF_vars(LoopEnd)

(***************************************************************************)
(* formatDelay                                                             *)
(***************************************************************************)
\* the characters of a delay text besides the digits 0..9 and the letters
\* a..f (10..15) and A..F (26..31)
DelayChar ==
    [space |-> 33, minus |-> 34, plus |-> 35, dot |-> 36, x |-> 37,
     h |-> 38, m |-> 39, s |-> 40, d |-> 13, b |-> 11, e |-> 14]

\* bigint division and remainder truncate towards zero
quotient(a, b) == IF a >= 0 THEN a \div b ELSE -((-a) \div b)
remainder(a, b) == a - b * quotient(a, b)

\* `${n}` of a bigint: its decimal digits, after a minus sign when negative
RECURSIVE decimalDigits(_)
decimalDigits(n) ==
    IF n < 10 THEN <<n>> ELSE Append(decimalDigits(n \div 10), n % 10)
decimalText(n) ==
    IF n < 0 THEN <<DelayChar.minus>> \o decimalDigits(-n)
    ELSE decimalDigits(n)

\* the value of the digits d in the base given
RECURSIVE valueIn(_, _, _)
valueIn(base, d, k) ==
    IF k = 0 THEN 0 ELSE base * valueIn(base, d, k - 1) + HexVal(d[k])

\* the text without the white space at its ends
trimmed(text) ==
    CHOOSE t \in {SubSeq(text, i, j) : i \in 1..(Len(text) + 1), j \in 0..Len(text)} :
        /\ \E i \in 1..(Len(text) + 1), j \in 0..Len(text) :
              /\ t = SubSeq(text, i, j)
              /\ \A k \in 1..(i - 1) : text[k] = DelayChar.space
              /\ \A k \in (j + 1)..Len(text) : text[k] = DelayChar.space
        /\ t = <<>> \/ (t[1] # DelayChar.space /\ t[Len(t)] # DelayChar.space)

allIn(t, from, chars) ==
    /\ from <= Len(t)
    /\ \A k \in from..Len(t) : t[k] \in chars

\* BigInt(string), StringToBigInt: white space is trimmed, the empty text is
\* 0n, 0x and 0b announce hex and binary digits, decimal digits may follow a
\* sign; every other text is a SyntaxError
parseBigInt(t) ==
    IF t = <<>> THEN Return(0)
    ELSE IF Len(t) >= 2 /\ t[1] = 0 /\ t[2] = DelayChar.x
    THEN IF allIn(t, 3, (0..15) \cup (26..31))
         THEN Return(valueIn(16, SubSeq(t, 3, Len(t)), Len(t) - 2))
         ELSE Throw
    ELSE IF Len(t) >= 2 /\ t[1] = 0 /\ t[2] \in {DelayChar.b, 27}
    THEN IF allIn(t, 3, {0, 1})
         THEN Return(valueIn(2, SubSeq(t, 3, Len(t)), Len(t) - 2))
         ELSE Throw
    ELSE IF t[1] \in {DelayChar.minus, DelayChar.plus}
    THEN IF allIn(t, 2, 0..9)
         THEN Return((IF t[1] = DelayChar.minus THEN -1 ELSE 1)
                        * valueIn(10, SubSeq(t, 2, Len(t)), Len(t) - 1))
         ELSE Throw
    ELSE IF allIn(t, 1, 0..9) THEN Return(valueIn(10, t, Len(t)))
    ELSE Throw

BigInt(text) == parseBigInt(trimmed(text))

\* the arguments of formatDelay: a bigint, or a string
bigint(n) == [type |-> "bigint", n |-> n]
string(text) == [type |-> "string", text |-> text]

\* parts.join(' ')
RECURSIVE join(_)
join(parts) ==
    IF Len(parts) = 0 THEN <<>>
    ELSE IF Len(parts) = 1 THEN parts[1]
    ELSE parts[1] \o <<DelayChar.space>> \o join(Tail(parts))

\* the parts pushed for days, hours and mins, and for secs when none was
orSeconds(parts, secs) ==
    IF Len(parts) = 0 THEN <<decimalText(secs) \o <<DelayChar.s>>>> ELSE parts

\* variant of the parts: the minutes are those of the day, not of the hour
partsOf_MinutesOfDay(secs, days, hours, mins) ==
    orSeconds(
        (IF days > 0 THEN <<decimalText(days) \o <<DelayChar.d>>>> ELSE <<>>)
        \o (IF hours > 0 THEN <<decimalText(hours) \o <<DelayChar.h>>>> ELSE <<>>)
        \o (IF quotient(remainder(secs, 86400), 60) > 0
            THEN <<decimalText(quotient(remainder(secs, 86400), 60)) \o <<DelayChar.m>>>>
            ELSE <<>>),
        secs)

partsOf(secs, days, hours, mins) ==
    orSeconds(
        (IF days > 0 THEN <<decimalText(days) \o <<DelayChar.d>>>> ELSE <<>>)
        \o (IF hours > 0 THEN <<decimalText(hours) \o <<DelayChar.h>>>> ELSE <<>>)
        \o (IF mins > 0 THEN <<decimalText(mins) \o <<DelayChar.m>>>> ELSE <<>>),
        secs)

formatSecs(secs) ==
    IF ~secs.ok THEN Throw
    ELSE Return(join(partsOf(secs.v, quotient(secs.v, 86400),
                             quotient(remainder(secs.v, 86400), 3600),
                             quotient(remainder(secs.v, 3600), 60))))

formatDelay(seconds) ==
    formatSecs(IF seconds.type = "string" THEN BigInt(seconds.text)
               ELSE Return(seconds.n))

(***************************************************************************)
(* DelaySpec: formatDelay called with bigints, with their decimal texts    *)
(* and with other texts, and by the schedule tab while it renders          *)
(***************************************************************************)
\* delays of 0, 1, 2 and 12 days plus 0, 1 and 23 hours plus 0, 1 and 59
\* minutes plus 0, 1 and 59 seconds
DelayNumbers ==
    {86400 * dd + 3600 * hh + 60 * mm + ss :
        dd \in {0, 1, 2, 12}, hh \in {0, 1, 23}, mm \in {0, 1, 59},
        ss \in {0, 1, 59}}

\* "", " 60 ", "+60", "007", "-5", "-90000", "0x3c", "0b11", "abc", "1.5",
\* "1e3", "12a", "1d", "-", "0x", "6 0"
DelayTexts ==
    {<<>>,
     <<DelayChar.space, 6, 0, DelayChar.space>>,
     <<DelayChar.plus, 6, 0>>,
     <<0, 0, 7>>,
     <<DelayChar.minus, 5>>,
     <<DelayChar.minus, 9, 0, 0, 0, 0>>,
     <<0, DelayChar.x, 3, 12>>,
     <<0, DelayChar.b, 1, 1>>,
     <<10, 11, 12>>,
     <<1, DelayChar.dot, 5>>,
     <<1, DelayChar.e, 3>>,
     <<1, 2, 10>>,
     <<1, DelayChar.d>>,
     <<DelayChar.minus>>,
     <<0, DelayChar.x>>,
     <<6, DelayChar.space, 0>>}

Formats(r) ==
    /\ pc = "idle"
    /\ req' = r
    /\ dec' = formatDelay(r.seconds)
    /\ pc' = "formatted"
    /\ UNCHANGED <<enc, calldata, tamper, prevReq, prevEnc, prevHash, curHash,
                   hookVars, loopVars, urlVars>>

\* formatDelay(n) of a bigint
FormatBigint ==
    \E n \in DelayNumbers \cup {-5, -90000} :
        Formats([fn |-> "formatDelay", seconds |-> bigint(n), n |-> n])

\* formatDelay(text), the text being the decimal digits of a number
FormatDecimal ==
    \E n \in DelayNumbers :
        Formats([fn |-> "formatDelay", seconds |-> string(decimalText(n)),
                 n |-> n])

\* formatDelay(text) of any other text
FormatText ==
    \E t \in DelayTexts :
        Formats([fn |-> "formatDelay", seconds |-> string(t)])

\* the minimum delays read from the timelock: none yet, or a bigint
MinDelays == {-1, 0, 86400}

\* ScheduleTab renders the helper of the delay field:
\* minDelay ? `Min delay: ...(${formatDelay(minDelay)})` : `${formatDelay(delay)}`
\* with the text of the field; 0n is falsy, -1 stands for undefined
RenderDelayField ==
    /\ pc = "idle"
    /\ \E minDelay \in MinDelays,
          t \in DelayTexts \cup {decimalText(n) : n \in {0, 86400, 90061}} :
          /\ req' = [fn |-> "ScheduleTab", minDelay |-> minDelay, delay |-> t]
          /\ dec' = IF minDelay > 0 THEN formatDelay(bigint(minDelay))
                    ELSE formatDelay(string(t))
    /\ pc' = "rendered"
    /\ UNCHANGED <<enc, calldata, tamper, prevReq, prevEnc, prevHash, curHash,
                   hookVars, loopVars, urlVars>>

DelayNext ==
    \/ FormatBigint
    \/ FormatDecimal
    \/ FormatText
    \/ RenderDelayField
    \/ Reset

DelaySpec == Init /\ [][DelayNext]_vars

(***************************************************************************)
(* useUrlState: updateUrl, its debounce timer and clearTabState            *)
(***************************************************************************)
\* if (value): neither undefined, null nor ''
truthy(v) == v \notin {Absent, ""}

\* buildUrl: the parameters set for a state. URLSearchParams writes and
\* reads back every text unchanged, so a URL is modelled by its parameters
shown(k, v) ==
    /\ truthy(v)
    /\ k = "tab" => v # "schedule"
    /\ k = "calldata" => v # "0x"
buildUrl(state) == [k \in Keys |-> IF shown(k, state[k]) THEN state[k] ELSE Absent]

\* variant of the merge: the partial state replaces the current one
merge_Replace(current, k, v) == [NoState EXCEPT ![k] = v]

\* { ...currentStateRef.current, ...state } for the partial state {k: v}
merge(current, k, v) == [current EXCEPT ![k] = v]

\* setTimeout(..., 100)
DebounceMs == 100
\* the step of the clock, and the most updateUrl calls of one burst
TickMs == 50
MaxCalls == 3

\* the keep of clearTabState: tab and timelock as the URL has them
orUndefined(v) == IF truthy(v) THEN v ELSE Absent
kept(tab, timelock) ==
    [NoState EXCEPT !["tab"] = orUndefined(tab),
                    !["timelock"] = orUndefined(timelock)]

\* clearTabState, iframe mode: the timelock of the URL or else the stored one
preservedTimelock(timelock, item) ==
    IF truthy(timelock) THEN timelock
    ELSE IF item.stored THEN item.state["timelock"] ELSE timelock
storedByClear(tab, timelock) ==
    IF truthy(timelock) \/ truthy(tab) THEN Item(kept(tab, timelock))
    ELSE NoItem

(***************************************************************************)
(* UrlSpec: one component using useUrlState, from its mount on             *)
(***************************************************************************)
TabValues == {"schedule", "execute", "decode"}
TimelockValues == {"", "0x1111", "0x2222"}
\* the partial states passed to updateUrl, one key each
Partials ==
    ({"tab"} \X TabValues) \cup ({"timelock"} \X TimelockValues)
        \cup ({"calldata"} \X {"0x", "0xcd"})
\* the URLs the page is opened with
OpenedUrls ==
    {NoState,
     [NoState EXCEPT !["tab"] = "decode", !["timelock"] = "0x1111",
                     !["calldata"] = "0xcd"]}

Mounted(iframe) ==
    /\ pc' = "mounted"
    /\ isIframeMode' = iframe
    /\ currentStateRef' = NoState
    /\ debounceRef' = "unset"
    /\ elapsed' = 0
    /\ passed' = NoState
    /\ cleared' = "no"
    /\ setSince' = {}
    /\ writes' = 0
    /\ calls' = 0
    /\ UNCHANGED <<req, enc, calldata, tamper, dec, prevReq, prevEnc, prevHash,
                   curHash, hookVars, loopVars>>

\* the page is opened and useUrlState runs for the first time
Mount ==
    /\ pc = "idle"
    /\ \E iframe \in BOOLEAN : Mounted(iframe)
    /\ \E u \in OpenedUrls : url' = u
    /\ storage' = storage

\* the component is mounted again: the refs are new, the URL and
\* localStorage are as they were left
Remount ==
    /\ pc = "unmounted"
    /\ Mounted(isIframeMode)
    /\ UNCHANGED <<url, storage>>

\* updateUrl(state)
UpdateUrl ==
    /\ pc = "mounted"
    /\ debounceRef = "waiting" => calls < MaxCalls
    /\ \E p \in Partials :
          /\ currentStateRef' = merge(currentStateRef, p[1], p[2])
          /\ passed' = [passed EXCEPT ![p[1]] = p[2]]
          /\ setSince' = setSince \cup {p[1]}
    /\ debounceRef' = "waiting"
    /\ elapsed' = 0
    /\ writes' = 0
    /\ calls' = IF debounceRef = "waiting" THEN calls + 1 ELSE 1
    /\ UNCHANGED <<pc, req, enc, calldata, tamper, dec, prevReq, prevEnc,
                   prevHash, curHash, hookVars, loopVars, isIframeMode, url,
                   storage, cleared>>

\* time passes while the timer waits
Tick ==
    /\ pc = "mounted"
    /\ debounceRef = "waiting"
    /\ elapsed < DebounceMs
    /\ elapsed' = elapsed + TickMs
    /\ UNCHANGED <<pc, req, enc, calldata, tamper, dec, prevReq, prevEnc,
                   prevHash, curHash, hookVars, loopVars, isIframeMode,
                   currentStateRef, debounceRef, url, storage, passed, cleared,
                   setSince, writes, calls>>

\* the callback of the timer runs
Fire ==
    /\ pc = "mounted"
    /\ debounceRef = "waiting"
    /\ elapsed >= DebounceMs
    /\ url' = buildUrl(currentStateRef)
    /\ storage' = IF isIframeMode THEN Item(currentStateRef) ELSE storage
    /\ debounceRef' = "over"
    /\ elapsed' = 0
    /\ writes' = writes + 1
    /\ UNCHANGED <<pc, req, enc, calldata, tamper, dec, prevReq, prevEnc,
                   prevHash, curHash, hookVars, loopVars, isIframeMode,
                   currentStateRef, passed, cleared, setSince, calls>>

\* clearTabState()
ClearTabState ==
    /\ pc = "mounted"
    /\ debounceRef' = IF debounceRef = "unset" THEN "unset" ELSE "over"
    /\ elapsed' = 0
    /\ url' = kept(url["tab"], url["timelock"])
    /\ currentStateRef' = kept(url["tab"], url["timelock"])
    /\ storage' =
          IF isIframeMode
          THEN storedByClear(url["tab"],
                   preservedTimelock(url["timelock"], storage))
          ELSE storage
    /\ cleared' = IF debounceRef = "waiting" \/ cleared = "waiting"
                  THEN "waiting" ELSE "quiet"
    /\ setSince' = {}
    /\ UNCHANGED <<pc, req, enc, calldata, tamper, dec, prevReq, prevEnc,
                   prevHash, curHash, hookVars, loopVars, isIframeMode, passed,
                   writes, calls>>

\* the cleanup of the effect: the component is unmounted
Unmount ==
    /\ pc = "mounted"
    /\ pc' = "unmounted"
    /\ debounceRef' = IF debounceRef = "unset" THEN "unset" ELSE "over"
    /\ elapsed' = 0
    /\ UNCHANGED <<req, enc, calldata, tamper, dec, prevReq, prevEnc, prevHash,
                   curHash, hookVars, loopVars, isIframeMode, currentStateRef,
                   url, storage, passed, cleared, setSince, writes, calls>>

UrlNext ==
    \/ Mount
    \/ Remount
    \/ UpdateUrl
    \/ Tick
    \/ Fire
    \/ ClearTabState
    \/ Unmount

UrlSpec == Init /\ [][UrlNext]_vars

\* the clock runs, and a timer that is due and not cleared has its callback
\* run by the event loop
UrlLive == UrlSpec /\ WF_vars(Tick) /\ WF_vars(Fire)

(***************************************************************************)
(* Round trips                                                             *)
(***************************************************************************)
\* the decimal spelling of the numbers the inputs are drawn from
DecimalOf(n) ==
    CASE n = Zero -> <<0>>
      [] n = OneDay -> <<8, 6, 4, 0, 0>>
      [] n = OneEther -> <<1>> \o Zeros(18)
      [] n = MaxUint256 ->
           <<1,1,5,7,9,2,0,8,9,2,3,7,3,1,6,1,9,5,4,2,3,5,7,0,9,8,5,0,0,8,6,8,7,
             9,0,7,8,5,3,2,6,9,9,8,4,6,6,5,6,4,0,5,6,4,0,3,9,4,5,7,5,8,4,0,0,7,
             9,1,3,1,2,9,6,3,9,9,3,5>>

\* the same bytes, whatever the case of the hex letters
SameHex(x, y) == ToLowerCase(x) = ToLowerCase(y)

Decoded(fn) == pc = "decoded" /\ req.fn = fn

\* C1 as stated: decoding the calldata of encodeSchedule gives a 'schedule'
\* call whose target, data, predecessor and salt are the texts passed in,
\* whose value and delay are their decimal strings, and whose operationId is
\* the one encodeSchedule returned
C1_ScheduleFieldsIdentical ==
    Decoded("schedule") =>
        /\ dec.ok /\ dec.v.functionName = "schedule"
        /\ dec.v.target = req.target
        /\ dec.v.data = req.data
        /\ dec.v.predecessor = req.predecessor
        /\ dec.v.salt = req.salt
        /\ dec.v.value = DecimalOf(req.value)
        /\ dec.v.delay = DecimalOf(req.delay)
        /\ dec.v.operationId = enc.v.operationId

\* C1: decoding the calldata of encodeSchedule gives a 'schedule' call with
\* the same target address, spelled with its EIP-55 checksum, the same data,
\* predecessor and salt bytes, spelled in lower-case hex, value and delay as
\* their decimal strings, and the operationId encodeSchedule returned
C1_ScheduleRoundTrip ==
    Decoded("schedule") =>
        /\ dec.ok /\ dec.v.functionName = "schedule"
        /\ dec.v.target = checksumAddress(ToLowerCase(req.target))
        /\ SameHex(dec.v.target, req.target)
        /\ dec.v.data = ToLowerCase(req.data)
        /\ dec.v.predecessor = ToLowerCase(req.predecessor)
        /\ dec.v.salt = ToLowerCase(req.salt)
        /\ dec.v.value = DecimalOf(req.value)
        /\ dec.v.delay = DecimalOf(req.delay)
        /\ dec.v.operationId = enc.v.operationId

\* a schedule call with a lower-case target, 33 bytes of data, the largest
\* value and a one-day delay has been encoded and decoded
C1_Witness ==
    /\ Decoded("schedule") /\ dec.ok /\ dec.v.functionName = "schedule"
    /\ req.target = AddrLower /\ req.data = Data33
    /\ req.value = MaxUint256 /\ req.delay = OneDay
    /\ req.predecessor # req.salt

DecodedBatch == Decoded("scheduleBatch") \/ Decoded("executeBatch")

\* C2 as stated: decoding the calldata of encodeScheduleBatch or
\* encodeExecuteBatch gives a call of that name whose operations are, in
\* order, the target and payload texts passed in with the decimal string of
\* the value, and whose operationId is the one the encoder returned
C2_BatchEntriesIdentical ==
    DecodedBatch =>
        /\ dec.ok /\ dec.v.functionName = req.fn
        /\ Len(dec.v.operations) = Len(req.targets)
        /\ \A i \in 1..Len(req.targets) :
              /\ dec.v.operations[i].target = req.targets[i]
              /\ dec.v.operations[i].value = DecimalOf(req.values[i])
              /\ dec.v.operations[i].data = req.payloads[i]
        /\ dec.v.operationId = enc.v.operationId

\* C2: decoding the calldata of encodeScheduleBatch or encodeExecuteBatch
\* gives a call of that name with as many operations as were passed in (none
\* included), entry i being the checksummed spelling of targets[i], the
\* decimal string of values[i] and the lower-case spelling of payloads[i], and
\* with the operationId the encoder returned
C2_BatchRoundTrip ==
    DecodedBatch =>
        /\ dec.ok /\ dec.v.functionName = req.fn
        /\ Len(dec.v.operations) = Len(req.targets)
        /\ \A i \in 1..Len(req.targets) :
              /\ dec.v.operations[i].target =
                    checksumAddress(ToLowerCase(req.targets[i]))
              /\ SameHex(dec.v.operations[i].target, req.targets[i])
              /\ dec.v.operations[i].value = DecimalOf(req.values[i])
              /\ dec.v.operations[i].data = ToLowerCase(req.payloads[i])
        /\ dec.v.operationId = enc.v.operationId

\* a batch of two different operations has been encoded by encodeExecuteBatch
\* and decoded
C2_Witness ==
    /\ Decoded("executeBatch") /\ dec.ok
    /\ Len(req.targets) = 2 /\ Len(dec.v.operations) = 2
    /\ req.targets[1] # req.targets[2]
    /\ req.values[1] # req.values[2]
    /\ req.payloads[1] # req.payloads[2]

\* C3 as stated: decoding the calldata of encodeExecute gives an 'execute'
\* call with the five texts and numbers passed in, the operationId
\* encodeExecute returned, and no delay
C3_ExecuteFieldsIdentical ==
    Decoded("execute") =>
        /\ dec.ok /\ dec.v.functionName = "execute"
        /\ dec.v.target = req.target
        /\ dec.v.value = DecimalOf(req.value)
        /\ dec.v.data = req.data
        /\ dec.v.predecessor = req.predecessor
        /\ dec.v.salt = req.salt
        /\ dec.v.operationId = enc.v.operationId
        /\ "delay" \notin DOMAIN dec.v

\* C3: decoding the calldata of encodeExecute gives an 'execute' call with the
\* same target address in checksum spelling, the decimal string of the value,
\* the same data, predecessor and salt bytes in lower-case hex, the
\* operationId encodeExecute returned, and no delay field
C3_ExecuteRoundTrip ==
    Decoded("execute") =>
        /\ dec.ok /\ dec.v.functionName = "execute"
        /\ dec.v.target = checksumAddress(ToLowerCase(req.target))
        /\ SameHex(dec.v.target, req.target)
        /\ dec.v.value = DecimalOf(req.value)
        /\ dec.v.data = ToLowerCase(req.data)
        /\ dec.v.predecessor = ToLowerCase(req.predecessor)
        /\ dec.v.salt = ToLowerCase(req.salt)
        /\ dec.v.operationId = enc.v.operationId
        /\ DOMAIN dec.v = {"functionName", "target", "value", "data",
                           "predecessor", "salt", "operationId"}

\* an execute call with upper-case data and predecessor has been encoded and
\* decoded
C3_Witness ==
    /\ Decoded("execute") /\ dec.ok /\ dec.v.functionName = "execute"
    /\ req.data = Data4Upper /\ req.predecessor = TestSaltUpper
    /\ req.target = AddrChecksummed

\* C4 as stated: decoding encodeCancel(id) gives a 'cancel' call whose
\* operationId is the text of id and which has no other field
C4_CancelIdIdentical ==
    Decoded("cancel") =>
        /\ dec.ok /\ dec.v.functionName = "cancel"
        /\ dec.v.operationId = req.id
        /\ DOMAIN dec.v = {"functionName", "operationId"}

\* C4: decoding encodeCancel(id) gives a 'cancel' call whose operationId is
\* the 32 bytes of id spelled in lower-case hex, not a hash of them, and which
\* has no other field
C4_CancelRoundTrip ==
    Decoded("cancel") =>
        /\ dec.ok /\ dec.v.functionName = "cancel"
        /\ dec.v.operationId = ToLowerCase(req.id)
        /\ ~IsDigest(dec.v.operationId)
        /\ DOMAIN dec.v = {"functionName", "operationId"}

\* a non-zero id has been encoded by encodeCancel and decoded
C4_Witness ==
    /\ Decoded("cancel") /\ dec.ok /\ dec.v.functionName = "cancel"
    /\ req.id = TestSalt

\* C8: scheduling the same operation (or batch) with another delay returns
\* the same operationId and different calldata
C8_DelayExcluded ==
    prevReq # NoReq =>
        /\ prevReq.delay # req.delay
        /\ [prevReq EXCEPT !.delay = req.delay] = req
        /\ prevEnc.ok /\ enc.ok
        /\ prevEnc.v.operationId = enc.v.operationId
        /\ prevEnc.v.calldata # enc.v.calldata

\* a schedule call with data has been encoded with two delays
C8_Witness ==
    /\ prevReq # NoReq /\ req.fn = "schedule" /\ req.data = Data33
    /\ prevReq.delay # req.delay /\ enc.ok

Recognized ==
    {AbiItem(f).selector :
        f \in {"schedule", "scheduleBatch", "execute", "executeBatch", "cancel"}}

Unrecognized(c) ==
    \/ Len(c) < 2 * SelectorBytes
    \/ ToLowerCase(selectorOf(c)) \notin Recognized

\* C6: decodeTimelockCalldata returns null, and does not throw, for calldata
\* shorter than 4 bytes (empty included) and for calldata whose first 4 bytes
\* are not the selector of one of the five calls
C6_UnrecognizedIsNull ==
    (pc = "decoded" /\ Unrecognized(calldata)) => dec = Return(Null)

\* the selector of getTimestamp followed by an id has been decoded
C6_Witness ==
    /\ pc = "decoded" /\ calldata = GetTimestampSelector \o TestSalt
    /\ Unrecognized(calldata) /\ dec = Return(Null)

(***************************************************************************)
(* Operation ids                                                           *)
(***************************************************************************)
\* the two calls of hashOperation had the same five values
SameOperation(g, h) ==
    /\ SameHex(g.target, h.target)
    /\ g.value = h.value
    /\ SameHex(g.data, h.data)
    /\ SameHex(g.predecessor, h.predecessor)
    /\ SameHex(g.salt, h.salt)

\* C7: two calls of hashOperation with the same five values return the same
\* digest, and a call that differs in the value of exactly one of target,
\* value, data, predecessor and salt returns another digest
C7_ContentAddressing ==
    (prevHash # NoHash /\ curHash.fn = "hashOperation") =>
        /\ prevHash.id.ok /\ IsDigest(prevHash.id.v)
        /\ curHash.id.ok /\ IsDigest(curHash.id.v)
        /\ SameOperation(prevHash, curHash) <=> prevHash.id = curHash.id

\* hashOperation has been called with data 0xa9059cbb and again with
\* 0xa9059cbb00, all else equal, and returned two digests
C7_Witness ==
    /\ prevHash # NoHash /\ curHash.fn = "hashOperation"
    /\ prevHash.data = Data4 /\ curHash.data = Data4Zero
    /\ prevHash.id # curHash.id

\* the ABI encoding written out: a number or an address in a word, padded on
\* the left; bytes as their length and their content padded on the right to
\* whole words; an array as its length and its elements
LeftPadded(digits) == Zeros(WordChars - Len(digits)) \o digits
RightPadded(d) == d \o Zeros((WordChars - (Len(d) % WordChars)) % WordChars)
WordOf(n) == LeftPadded(NatToDigits(n))
BytesLayout(d) == WordOf(Len(d) \div 2) \o RightPadded(d)
AddressesLayout(ts) ==
    WordOf(Len(ts)) \o Concat([i \in 1..Len(ts) |-> LeftPadded(ToLowerCase(ts[i]))])
NumbersLayout(vs) ==
    WordOf(Len(vs)) \o Concat([i \in 1..Len(vs) |-> LeftPadded(vs[i])])
PayloadsLayout(ds) ==
    WordOf(Len(ds))
        \o Concat([i \in 1..Len(ds) |->
              WordOf(WordBytes * Len(ds)
                     + Sum([j \in 1..(i - 1) |-> Len(BytesLayout(ds[j])) \div 2]))])
        \o Concat([i \in 1..Len(ds) |-> BytesLayout(ds[i])])

\* (address, uint256, bytes, bytes32, bytes32): five head words, the third
\* the offset of the bytes, which follow the head
OperationLayout(t, v, d, p, s) ==
    LeftPadded(ToLowerCase(t)) \o LeftPadded(v) \o WordOf(5 * WordBytes)
        \o p \o s \o BytesLayout(d)

\* (address[], uint256[], bytes[], bytes32, bytes32): five head words, the
\* first three the offsets of the arrays, which follow the head in order
BatchLayout(ts, vs, ds, p, s) ==
    WordOf(5 * WordBytes)
        \o WordOf(5 * WordBytes + Len(AddressesLayout(ts)) \div 2)
        \o WordOf(5 * WordBytes + Len(AddressesLayout(ts)) \div 2
                                + Len(NumbersLayout(vs)) \div 2)
        \o p \o s
        \o AddressesLayout(ts) \o NumbersLayout(vs) \o PayloadsLayout(ds)

\* the digest of the bytes a hex text spells
DigestOf(hex) ==
    Return(<<-1>> \o [i \in 1..(Len(hex) \div 2) |->
                        16 * HexVal(hex[2 * i - 1]) + HexVal(hex[2 * i])])

LayoutOf(h) ==
    IF h.fn \in {"hashOperation", "schedule", "execute"}
    THEN OperationLayout(h.target, h.value, h.data, h.predecessor, h.salt)
    ELSE BatchLayout(h.targets, h.values, h.payloads, h.predecessor, h.salt)

\* C9: hashOperation returns the digest of the ABI encoding of (address,
\* uint256, bytes, bytes32, bytes32), hashOperationBatch that of (address[],
\* uint256[], bytes[], bytes32, bytes32), neither with a selector in front,
\* and the operationId of the four encode functions is that digest for their
\* own arguments
C9_HashLayout ==
    /\ curHash # NoHash => curHash.id = DigestOf(LayoutOf(curHash))
    /\ (pc = "encoded" /\ req.fn # "cancel") =>
          /\ enc.ok
          /\ Return(enc.v.operationId) = DigestOf(LayoutOf(req))

\* hashOperationBatch has returned the digest of a batch of two operations
C9_Witness ==
    /\ curHash # NoHash /\ curHash.fn = "hashOperationBatch"
    /\ Len(curHash.targets) = 2 /\ curHash.payloads[1] # <<>>
    /\ curHash.id.ok /\ IsDigest(curHash.id.v)

\* the call was repeated with the arguments it had
SameOperationArgs == [prevHash EXCEPT !.id = curHash.id] = curHash

\* empty data, the value zero, or a batch of no operations
Degenerate(h) ==
    IF h.fn = "hashOperation"
    THEN h.data = NoData \/ h.value = Zero
    ELSE h.targets = <<>> /\ h.values = <<>> /\ h.payloads = <<>>

\* C10: hashOperation with empty data or the value zero, and
\* hashOperationBatch with three empty arrays, return a digest and do not
\* throw: for the empty batch the digest of the offsets 160, 192 and 224, the
\* predecessor, the salt and three zero lengths; and the same digest when
\* called again
C10_DegenerateHashed ==
    (curHash # NoHash /\ Degenerate(curHash)) =>
        /\ curHash.id.ok /\ IsDigest(curHash.id.v)
        /\ curHash.fn = "hashOperationBatch" =>
              curHash.id = DigestOf(WordOf(160) \o WordOf(192) \o WordOf(224)
                                    \o curHash.predecessor \o curHash.salt
                                    \o Zeros(3 * WordChars))
        /\ (curHash.fn = "hashOperation" /\ curHash.data = NoData) =>
              Len(curHash.id.v) = 1 + 6 * WordBytes
        /\ (prevHash # NoHash /\ SameOperationArgs) =>
              prevHash.id = curHash.id

\* hashOperationBatch has been called twice with three empty arrays
C10_Witness ==
    /\ prevHash # NoHash /\ curHash.fn = "hashOperationBatch"
    /\ curHash.targets = <<>> /\ prevHash.targets = <<>>
    /\ curHash.id.ok

(***************************************************************************)
(* MultiSend                                                               *)
(***************************************************************************)
MultiSendDecoded == pc = "decoded" /\ req.fn \in {"multiSend", "garbage"}

\* C11: decodeMultiSend never throws, and returns no transaction for calldata
\* that does not begin with 0x8d80ff0a in either letter case and for calldata
\* with the selector whose bytes wrapper has lost content, has an offset
\* outside it or a length past its end
C11_NotMultiSendIsEmpty ==
    MultiSendDecoded =>
        /\ dec.ok
        /\ (\/ Len(calldata) < 2 * SelectorBytes
            \/ ToLowerCase(SubSeq(calldata, 1, 2 * SelectorBytes))
                  # <<8, 13, 8, 0, 15, 15, 0, 10>>) => dec.v = <<>>
        /\ tamper \in {"truncated", "offset", "length"} => dec.v = <<>>

\* calldata with the selector in upper case and an overwritten length has
\* been decoded to no transaction
C11_Witness ==
    /\ MultiSendDecoded /\ req.fn = "multiSend" /\ Len(req.txs) = 2
    /\ req.selector = MultiSendSelectorUpper /\ tamper = "length"
    /\ dec = Return(<<>>)

\* what decodeMultiSend returns for a packed transaction
DecodedTx(tx) ==
    [operation |-> tx.operation, to |-> ToLowerCase(tx.to), value |-> tx.value,
     data |-> ToLowerCase(tx.data)]

\* C12: decodeMultiSend of a wrapped stream of N packed transactions
\* returns N entries, in order, with the operation, the 20 bytes of to, the
\* value and the data bytes of each (to and data spelled in lower-case hex)
C12_MultiSendRoundTrip ==
    (pc = "decoded" /\ req.fn = "multiSend" /\ tamper = "none") =>
        dec = Return([i \in 1..Len(req.txs) |-> DecodedTx(req.txs[i])])

\* a stream of a transaction with 33 bytes of data and one without data has
\* been decoded
C12_Witness ==
    /\ pc = "decoded" /\ req.fn = "multiSend" /\ tamper = "none"
    /\ Len(req.txs) = 2 /\ req.txs[1].data = Data33 /\ req.txs[2].data = NoData
    /\ dec.ok /\ Len(dec.v) = 2

\* the transactions of txs that lie wholly in the first n bytes of the stream
RECURSIVE CompleteTxs(_, _)
CompleteTxs(txs, n) ==
    IF txs = <<>> \/ Len(packTx(Head(txs))) \div 2 > n THEN <<>>
    ELSE <<DecodedTx(Head(txs))>>
            \o CompleteTxs(Tail(txs), n - Len(packTx(Head(txs))) \div 2)

\* C13: when the stream ends in the middle of a transaction, decodeMultiSend
\* returns exactly the transactions before it and none built from the rest
C13_CutStreamKeepsComplete ==
    (pc = "decoded" /\ tamper = "stream cut") =>
        dec = Return(CompleteTxs(req.txs, req.kept))

\* C14: extractTimelockCalldata returns data as it is when to is the timelock
\* address in any letter case, whatever data is and even when to is also a
\* MultiSend contract
C14_DirectCall ==
    (pc = "extracted" /\ SameHex(req.to, req.timelockAddress)) =>
        dec = Return(req.data)

\* the timelock is a MultiSend contract, to is its upper-case spelling, data
\* wraps two transactions, and data was returned as it is
C14_Witness ==
    /\ pc = "extracted" /\ req.to = MultiSend130Upper
    /\ req.timelockAddress = MultiSend130 /\ Len(req.txs) = 2
    /\ dec = Return(req.data)

Listed(a) ==
    ToLowerCase(a) \in {MultiSend130, MultiSendCallOnly130, MultiSend141,
                        MultiSendCallOnly141}

\* C15: extractTimelockCalldata returns null when to is neither the timelock
\* nor one of the four MultiSend contracts, whatever data is
C15_OtherTargetIsNull ==
    (pc = "extracted" /\ ~SameHex(req.to, req.timelockAddress) /\ ~Listed(req.to))
        => dec = Return(Null)

\* to is another address and data wraps a transaction to the timelock: null
C15_Witness ==
    /\ pc = "extracted" /\ req.to = AddrDigits /\ req.timelockAddress = AddrLower
    /\ Len(req.txs) = 2 /\ req.txs[1].to = AddrChecksummed
    /\ dec = Return(Null)

\* the data of the first transaction of txs to the timelock, or null
FirstToTimelock(txs, tl) ==
    IF \A i \in 1..Len(txs) : ~SameHex(txs[i].to, tl) THEN Null
    ELSE ToLowerCase(txs[CHOOSE i \in 1..Len(txs) :
                            /\ SameHex(txs[i].to, tl)
                            /\ \A j \in 1..(i - 1) : ~SameHex(txs[j].to, tl)].data)

\* C16: when to is a MultiSend contract and not the timelock,
\* extractTimelockCalldata returns the data of the first transaction of the
\* stream whose to is the timelock in any letter case, and null when there is
\* none
C16_FirstMatchingEntry ==
    (pc = "extracted" /\ ~SameHex(req.to, req.timelockAddress) /\ Listed(req.to))
        => dec = Return(FirstToTimelock(req.txs, req.timelockAddress))

\* two transactions to the timelock were sent through MultiSend and the data
\* of the first was returned
C16_Witness ==
    /\ pc = "extracted" /\ req.to = MultiSend130Upper
    /\ req.timelockAddress = AddrChecksummed /\ Len(req.txs) = 2
    /\ req.txs[1].to = AddrLower /\ req.txs[2].to = AddrChecksummed
    /\ dec = Return(NoData)

\* C17: isMultiSendAddress answers true exactly for the four listed addresses
\* in any letter case, first and after other calls
C17_AllowList ==
    pc = "answered" => dec = Return(Listed(req.address))

\* the upper-case spelling of a listed address was asked about: true
C17_Witness ==
    /\ pc = "answered" /\ req.address = MultiSend130Upper /\ dec = Return(TRUE)

(***************************************************************************)
(* Malformed input of the encoders                                         *)
(***************************************************************************)
HexText(t) == \A i \in 1..Len(t) : t[i] \in 0..15 \/ t[i] \in 26..31
AddressText(t) == Len(t) = 2 * AddressBytes /\ HexText(t)
BytesText(t) == Len(t) % 2 = 0 /\ HexText(t)
WordText(t) == Len(t) = 2 * WordBytes /\ HexText(t)

\* a target that is no 20-byte address, or data, predecessor, salt or id
\* that is no hex byte string
MalformedRequest(r) ==
    IF r.fn = "cancel" THEN ~WordText(r.id)
    ELSE \/ ~WordText(r.predecessor)
         \/ ~WordText(r.salt)
         \/ IF r.fn \in {"schedule", "execute"}
            THEN ~AddressText(r.target) \/ ~BytesText(r.data)
            ELSE \/ \E i \in 1..Len(r.targets) : ~AddressText(r.targets[i])
                 \/ \E i \in 1..Len(r.payloads) : ~BytesText(r.payloads[i])

\* C18: every encoder reports an error and returns no calldata and no
\* operation id when a target is no 20-byte address or when data,
\* predecessor, salt or the cancel id is no hex byte string
C18_MalformedRejected ==
    (pc = "encoded" /\ MalformedRequest(req)) => ~enc.ok

(***************************************************************************)
(* The functions decodeTimelockCalldata reports                            *)
(***************************************************************************)
\* C19: a result of decodeTimelockCalldata that is not null names schedule,
\* scheduleBatch, execute, executeBatch or cancel; calldata of the six
\* read-only functions of TIMELOCK_ABI decodes to null
C19_OnlyFiveNames ==
    pc = "decoded" =>
        /\ dec.ok
        /\ dec.v # Null =>
              dec.v.functionName \in
                  {"schedule", "scheduleBatch", "execute", "executeBatch", "cancel"}
        /\ "view" \in DOMAIN req => dec.v = Null

\* calldata of isOperationReady with an id has been decoded to null
C19_Witness ==
    /\ pc = "decoded" /\ "view" \in DOMAIN req /\ req.view = "isOperationReady"
    /\ calldata = <<1, 3, 11, 12, 9, 15, 2, 0>> \o TestSaltUpper
    /\ dec = Return(Null)

(***************************************************************************)
(* Inner calldata without the network                                      *)
(***************************************************************************)
\* the 4byte.directory query has returned no signature
NothingFound == pc = "rendered" /\ fourByte.status # "found"

InTable(selector) ==
    \E i \in 1..Len(KNOWN_SELECTORS) : KNOWN_SELECTORS[i].selector = selector

InStored(stored, selector) ==
    \E i \in 1..Len(stored) : Includes(stored[i].selectors, selector)

\* what is said of the result when the ABIs considered are stored
WithoutNetwork(stored) ==
    IF calldata # Undefined /\ Len(calldata) >= 2 * SelectorBytes
    THEN /\ dec.v.selector = ToLowerCase(SubSeq(calldata, 1, 2 * SelectorBytes))
         /\ dec.v.status \in {"decoded", "signature-only", "unknown"}
         /\ (dec.v.status = "unknown" /\ dec.v.source = "null")
               <=> (~InTable(dec.v.selector) /\ ~InStored(stored, dec.v.selector))
    ELSE dec.v.status = "unknown"

Crafted == pc = "decoded" /\ "crafted" \in DOMAIN req

UnequalLengths(r) ==
    Len(r.targets) # Len(r.values) \/ Len(r.values) # Len(r.payloads)

\* C21: decodeTimelockCalldata returns null for scheduleBatch and
\* executeBatch calldata whose targets, values and payloads do not all have
\* the same length
C21_UnequalArraysRejected ==
    (Crafted /\ UnequalLengths(req)) => dec = Return(Null)

\* the number a decimal spelling stands for
BigIntOf(text) ==
    CHOOSE n \in {Zero, OneDay, OneEther, MaxUint256} : toString(n) = text

\* the id of the fields a result reports
ReportedBatchId(r, ops) ==
    IF \E i \in 1..Len(ops) : ops[i].data = Undefined THEN Throw
    ELSE hashOperationBatch([i \in 1..Len(ops) |-> ops[i].target],
                            [i \in 1..Len(ops) |-> BigIntOf(ops[i].value)],
                            [i \in 1..Len(ops) |-> ops[i].data],
                            r.predecessor, r.salt)

ReportedId(r) ==
    IF r.functionName \in {"schedule", "execute"}
    THEN hashOperation(r.target, BigIntOf(r.value), r.data, r.predecessor, r.salt)
    ELSE ReportedBatchId(r, r.operations)

\* C22: the operationId of every result for schedule, execute, scheduleBatch
\* and executeBatch is the hash of the target, value, data, predecessor and
\* salt the result reports, for a batch of all entries of its operations
C22_DisplayedIsHashed ==
    (pc = "decoded" /\ dec.ok /\ dec.v.functionName \notin {"null", "cancel"})
        => ReportedId(dec.v) = Return(dec.v.operationId)

(***************************************************************************)
(* The entries decodeMultiSend returns                                     *)
(***************************************************************************)
\* C23: every entry decodeMultiSend returns has an operation of 0 or 1, a to
\* of 20 bytes, and, where its length word is in the stream, data of as many
\* bytes as the word announces
C23_WellFormedEntries ==
    (pc = "decoded" /\ req.fn = "multiSend" /\ tamper \in {"none", "stream cut"})
        => \A j \in 1..Len(dec.v) :
              /\ dec.v[j].operation \in {0, 1}
              /\ Len(dec.v[j].to) = 2 * AddressBytes
              /\ StartOf(req.txs, j) + EntryHeader <= req.kept
                    => Len(dec.v[j].data) = Len(req.txs[j].data)

(***************************************************************************)
(* The loop of decodeMultiSend ends                                        *)
(***************************************************************************)
\* what turn by turn returns is what decodeMultiSend returns
LoopIsDecodeMultiSend == pc = "decoded" => dec = decodeMultiSend(calldata)

\* C24: decodeMultiSend terminates: every turn of the loop moves the offset
\* forward by 85 bytes or more, the loop is left once the offset is at or
\* past the end of the stream, and at most ceil(length / 85) entries are
\* returned
C24_LoopTerminates ==
    /\ (pc = "looping") ~> (pc = "decoded")
    /\ [][(pc = "looping" /\ pc' = "looping")
            => /\ offset < Len(bytesArray)
               /\ offset' >= offset + EntryHeader]_vars
    /\ [](pc = "decoded" =>
            /\ offset >= Len(bytesArray)
            /\ Len(dec.v) <= CeilDiv(Len(bytesArray), EntryHeader))

\* a stream of two transactions whose last announces 2^256 - 1 bytes of data
\* has been decoded to two entries
C24_Witness ==
    /\ pc = "decoded" /\ tamper = "announced" /\ Len(req.txs) = 2
    /\ Len(dec.v) = 2 /\ offset > HugeNumber

(***************************************************************************)
(* A batch of one and its operation                                        *)
(***************************************************************************)
\* a batch of one has been hashed
BatchOfOne ==
    /\ pc = "hashed"
    /\ curHash.fn = "hashOperationBatch"
    /\ Len(curHash.targets) = 1

\* C25: the identifier of a batch of one operation differs from the
\* identifier hashOperation gives that operation with the same predecessor
\* and salt, and the identifier of an operation differs from that of the
\* batch made of it: the encodings hashed differ
C25_DomainSeparated ==
    /\ BatchOfOne =>
          /\ curHash.id.ok
          /\ hashOperation(curHash.targets[1], curHash.values[1],
                           curHash.payloads[1], curHash.predecessor,
                           curHash.salt).ok
          /\ curHash.id # hashOperation(curHash.targets[1], curHash.values[1],
                                        curHash.payloads[1],
                                        curHash.predecessor, curHash.salt)
    /\ (pc = "hashed" /\ curHash.fn = "hashOperation") =>
          /\ curHash.id.ok
          /\ curHash.id # hashOperationBatch(<<curHash.target>>,
                                             <<curHash.value>>,
                                             <<curHash.data>>,
                                             curHash.predecessor, curHash.salt)

\* a batch of one operation with data and a salt has been hashed
C25_Witness ==
    /\ BatchOfOne
    /\ curHash.payloads[1] = Data4
    /\ curHash.salt = TestSalt
    /\ curHash.id.ok

(***************************************************************************)
(* Scheduling and executing one operation                                  *)
(***************************************************************************)
\* the operationId encodeExecute / encodeExecuteBatch return for the
\* operation of the request r
executeId(r) ==
    IF r.fn \in {"schedule", "execute"}
    THEN encodeExecute(r.target, r.value, r.data, r.predecessor, r.salt)
            .v.operationId
    ELSE encodeExecuteBatch(r.targets, r.values, r.payloads, r.predecessor,
                            r.salt).v.operationId

\* the operationId encodeSchedule / encodeScheduleBatch return for the
\* operation of the request r and the delay dl
scheduleId(r, dl) ==
    IF r.fn \in {"schedule", "execute"}
    THEN encodeSchedule(r.target, r.value, r.data, r.predecessor, r.salt, dl)
            .v.operationId
    ELSE encodeScheduleBatch(r.targets, r.values, r.payloads, r.predecessor,
                             r.salt, dl).v.operationId

\* C26: the operationId returned with the calldata of a schedule (of a
\* scheduleBatch) is the one encodeExecute (encodeExecuteBatch) returns for
\* the same operation, and the operationId returned with the calldata of an
\* execute (executeBatch) is the one scheduling returns, whatever the delay
C26_SameOperation ==
    (pc = "encoded" /\ enc.ok) =>
        /\ req.fn \in {"schedule", "scheduleBatch"} =>
              enc.v.operationId = executeId(req)
        /\ req.fn \in {"execute", "executeBatch"} =>
              \A dl \in Delays : scheduleId(req, dl) = enc.v.operationId

\* a batch of two operations has been scheduled with a delay of one day
C26_Witness ==
    /\ pc = "encoded" /\ enc.ok
    /\ req.fn = "scheduleBatch"
    /\ Len(req.targets) = 2
    /\ req.delay = OneDay
    /\ enc.v.operationId = executeId(req)

(***************************************************************************)
(* What formatDelay returns                                                *)
(***************************************************************************)
\* the components of n seconds that are not zero, each with its unit
Components(n) ==
    SelectSeq(<<[count |-> n \div 86400, unit |-> DelayChar.d],
                [count |-> (n % 86400) \div 3600, unit |-> DelayChar.h],
                [count |-> (n % 3600) \div 60, unit |-> DelayChar.m]>>,
              LAMBDA c : c.count # 0)

\* the components written one after the other, a space between two
RECURSIVE Spelled(_, _)
Spelled(cs, k) ==
    IF k = 0 THEN <<>>
    ELSE (IF k = 1 THEN <<>> ELSE Spelled(cs, k - 1) \o <<DelayChar.space>>)
         \o decimalDigits(cs[k].count) \o <<cs[k].unit>>

ExpectedDelay(n) ==
    IF Components(n) = <<>> THEN decimalDigits(n) \o <<DelayChar.s>>
    ELSE Spelled(Components(n), Len(Components(n)))

\* formatDelay has been called for a number of seconds that is not negative
FormattedNumber ==
    pc = "formatted" /\ "n" \in DOMAIN req /\ req.n >= 0

\* C27: for a number of seconds that is not negative, given as a bigint or
\* as its decimal text with the same result, formatDelay returns the days,
\* the hours of the day and the minutes of the hour that are not zero, in
\* this order with one space between two; it returns the seconds, and then
\* nothing else, exactly when the number is less than 60
C27_FormatDelay ==
    FormattedNumber =>
        /\ dec.ok
        /\ dec.v = ExpectedDelay(req.n)
        /\ dec = formatDelay(bigint(req.n))
        /\ (\E k \in 1..Len(dec.v) : dec.v[k] = DelayChar.s) <=> req.n < 60
        /\ req.n < 60 => dec.v = decimalDigits(req.n) \o <<DelayChar.s>>

\* formatDelay("90061") has returned "1d 1h 1m"
C27_Witness ==
    /\ FormattedNumber
    /\ req.seconds = string(<<9, 0, 0, 6, 1>>)
    /\ dec = Return(<<1, DelayChar.d, DelayChar.space, 1, DelayChar.h,
                      DelayChar.space, 1, DelayChar.m>>)

\* C28: formatDelay returns a text for every bigint and every text, the text
\* of the delay field that the schedule tab passes to it while rendering
\* included
C28_NeverThrows == pc \in {"formatted", "rendered"} => dec.ok

(***************************************************************************)
(* The URL after clearTabState, and the writes of the debounce timer       *)
(***************************************************************************)
\* what a value of the key stands for: no tab is the default tab, no
\* timelock is the empty one
Effective(k, v) ==
    IF k = "tab" /\ ~truthy(v) THEN "schedule" ELSE orUndefined(v)

\* no timer waits
Quiescent == pc = "mounted" /\ debounceRef # "waiting"

\* the tracked state and the URL have the tab and the timelock last passed
\* to updateUrl, and no other key but those passed since the clear
LatestKept ==
    /\ \A k \in {"tab", "timelock"} :
          passed[k] # Absent =>
              /\ Effective(k, currentStateRef[k]) = Effective(k, passed[k])
              /\ Effective(k, url[k]) = Effective(k, passed[k])
    /\ \A k \in Keys \ {"tab", "timelock"} :
          k \notin setSince =>
              currentStateRef[k] = Absent /\ url[k] = Absent

\* C29: whenever no timer waits after a clearTabState, the tracked state and
\* the URL hold the tab and the timelock most recently passed to updateUrl,
\* also when that call was still waiting for its timer at the clear, and
\* every other key is absent unless updateUrl has set it since
C29_ClearKeepsLatest == (Quiescent /\ cleared # "no") => LatestKept

\* the same, where no clearTabState found a timer waiting
C29_QuietClear == (Quiescent /\ cleared = "quiet") => LatestKept

\* C30: without a clearTabState the URL is written by the timer alone, not
\* before 100 ms have passed since the last updateUrl and once only, with the
\* URL built from the values last passed for every key; and while the
\* component stays mounted a waiting timer leads to that write
C30_Coalesced ==
    /\ [][writes' = writes + 1 =>
            /\ elapsed >= DebounceMs
            /\ writes = 0
            /\ cleared = "no" => url' = buildUrl(passed)]_vars
    /\ [][(pc = "mounted" /\ pc' = "mounted" /\ cleared' = "no"
             /\ writes' = writes) => url' = url]_vars
    /\ [](writes <= 1)
    /\ (pc = "mounted" /\ debounceRef = "waiting")
          ~> (writes = 1 \/ pc # "mounted" \/ cleared # "no")

\* three calls less than 100 ms apart have been followed by one write
C30_Witness ==
    /\ pc = "mounted" /\ cleared = "no"
    /\ calls = 3 /\ writes = 1
    /\ passed = [tab |-> "execute", timelock |-> "0x1111", calldata |-> "0xcd"]
    /\ url = passed

====
